---- MODULE Spec2Model ----
(***************************************************************************)
(* Serena: tool registry and parameter contract (serena/tools),            *)
(* context/mode policy (serena/config/context_mode), agent (serena/agent)  *)
(* and the MCP protocol adapter (serena/mcp).                              *)
(*                                                                         *)
(* Python values are records [t |-> type name, v |-> text]: v is the text  *)
(* Python's str() gives for the value, so values of different types stay   *)
(* comparable.  A dict is a sequence of <<key, value>> pairs in insertion  *)
(* order.  A JSON text (schema_json) is the value json.loads gives for it: *)
(* records tagged with the Python type, dicts in document order, ints and  *)
(* floats kept apart.                                                      *)
(***************************************************************************)
EXTENDS Integers, Sequences, FiniteSets, TLC

VARIABLES
    phase,      \* "new": no agent yet; "agent": SerenaAgent constructed;
                \* "serving": _register_tools has bound the handlers
    tools,      \* agent.tool_registry.tools: dict name -> Tool, insertion order
    context,    \* agent.context
    modes,      \* agent.modes
    handlers,   \* the wrappers registered with the MCP server, each closing
                \* over its Tool
    calls,      \* the invocations in flight, one coroutine per slot
    nextCtx,    \* number of SerenaMCPRequestContext objects constructed
    errors,     \* number of log.error lines written by the wrappers
    unhandled,  \* an exception left a wrapper and reached the serving loop
    vtool,      \* Tool under validation (validate_parameters as a function)
    vkwargs,    \* the kwargs of that validate_parameters call
    vresult,    \* what the call returned or raised
    vresponse,  \* the wrapper's answer when that tool is invoked with vkwargs
    rop,        \* the last call of a ToolRegistry method and what it returned
    schema,     \* the schema_json a caller passes to _sanitize_for_openai_tools
    scache,     \* the lru_cache of _sanitize_for_openai_tools: dict from
                \* schema_json to the dict object returned for it
    sret,       \* what the calls with schema returned or raised, in call order
    sagain,     \* what the call with json.dumps of the first result returned
    loaded,     \* the last call of SerenaAgentContext.load or
                \* SerenaAgentMode.load: what it was given and what it returned
    xcall,      \* the last call of SerenaAgent.execute_tool: what it returned
                \* or raised, and what awaiting the returned coroutine gave
    ctools      \* config.tools of the SerenaConfig the agent was built from

vars == <<phase, tools, context, modes, handlers, calls, nextCtx, errors,
          unhandled, vtool, vkwargs, vresult, vresponse,
          rop, schema, scache, sret, sagain, loaded, xcall, ctools>>

----------------------------------------------------------------------------
(* Bounds *)

MaxParams == 2      \* declared parameters per tool under validation
MaxModes == 2       \* active modes per agent
MaxCalls == 3       \* invocations in flight at once
MaxRequests == 3    \* invocations accepted in one behaviour
MaxDepth == 2       \* schema nodes nested around a schema
MaxSanitize == 2    \* calls of _sanitize_for_openai_tools with one schema_json
MaxToolNames == 2   \* names in config.tools

----------------------------------------------------------------------------
(* Python values *)

StrV(s) == [t |-> "str", v |-> s]
IntV(s) == [t |-> "int", v |-> s]
BoolV(s) == [t |-> "bool", v |-> s]
None == [t |-> "NoneType", v |-> "None"]

IntLiterals == {"0", "1", "7"}

\* isinstance(value, type); bool is a subclass of int
isinstance(value, type) ==
    CASE type = "str" -> value.t = "str"
      [] type = "int" -> value.t \in {"int", "bool"}
      [] type = "bool" -> value.t = "bool"
      [] OTHER -> FALSE

\* truth value of a Python value (bool(x))
Truthy(value) ==
    CASE value.t = "str" -> value.v # ""
      [] value.t = "int" -> value.v # "0"
      [] value.t = "bool" -> value.v = "True"
      [] OTHER -> FALSE

\* param.type(value): the converted value, or the exception the constructor
\* raises
Construct(type, value) ==
    CASE type = "str" -> [ok |-> TRUE, value |-> StrV(value.v)]
      [] type = "bool" ->
            [ok |-> TRUE, value |-> BoolV(IF Truthy(value) THEN "True" ELSE "False")]
      [] type = "int" ->
            CASE value.t = "int" -> [ok |-> TRUE, value |-> value]
              [] value.t = "bool" ->
                    [ok |-> TRUE, value |-> IntV(IF value.v = "True" THEN "1" ELSE "0")]
              [] value.t = "str" ->
                    IF value.v \in IntLiterals
                    THEN [ok |-> TRUE, value |-> IntV(value.v)]
                    ELSE [ok |-> FALSE, exc |-> "ValueError"]
              [] OTHER -> [ok |-> FALSE, exc |-> "TypeError"]
      [] OTHER -> [ok |-> FALSE, exc |-> "TypeError"]

\* dict[key] = value on an insertion-ordered dict
DictSet(d, key, value) ==
    IF \E i \in 1..Len(d) : d[i][1] = key
    THEN [i \in 1..Len(d) |-> IF d[i][1] = key THEN <<key, value>> ELSE d[i]]
    ELSE Append(d, <<key, value>>)

DictKeys(d) == {d[i][1] : i \in 1..Len(d)}

DictGet(d, key) == d[CHOOSE i \in 1..Len(d) : d[i][1] = key][2]

----------------------------------------------------------------------------
(* serena/tools: ToolParameter, Tool.validate_parameters *)

ToolParameter(name, type, required, default) ==
    [name |-> name, type |-> type, required |-> required, default |-> default]

\* the loop body without the check of required parameters: an absent
\* parameter takes its default if it has one and is skipped otherwise
ValidateOne_NoRequiredCheck(param, kwargs, validated) ==
    IF param.name \in DOMAIN kwargs
    THEN LET value == kwargs[param.name]
             conv == Construct(param.type, value)
         IN  IF isinstance(value, param.type)
             THEN [ok |-> TRUE, validated |-> DictSet(validated, param.name, value)]
             ELSE IF conv.ok
                  THEN [ok |-> TRUE,
                        validated |-> DictSet(validated, param.name, conv.value)]
                  ELSE [ok |-> FALSE, exc |-> "ValueError",
                        message |-> "Parameter " \o param.name
                                     \o " must be of type " \o param.type]
    ELSE IF param.default # None
         THEN [ok |-> TRUE,
               validated |-> DictSet(validated, param.name, param.default)]
         ELSE [ok |-> TRUE, validated |-> validated]

\* the loop body with the default tested before the call's arguments: a
\* parameter that has a default always takes it
ValidateOne_DefaultFirst(param, kwargs, validated) ==
    IF param.default # None
    THEN [ok |-> TRUE, validated |-> DictSet(validated, param.name, param.default)]
    ELSE IF param.name \in DOMAIN kwargs
         THEN LET value == kwargs[param.name]
                  conv == Construct(param.type, value)
              IN  IF isinstance(value, param.type)
                  THEN [ok |-> TRUE,
                        validated |-> DictSet(validated, param.name, value)]
                  ELSE IF conv.ok
                       THEN [ok |-> TRUE,
                             validated |-> DictSet(validated, param.name, conv.value)]
                       ELSE [ok |-> FALSE, exc |-> "ValueError",
                             message |-> "Parameter " \o param.name
                                          \o " must be of type " \o param.type]
         ELSE IF param.required
              THEN [ok |-> FALSE, exc |-> "ValueError",
                    message |-> "Required parameter " \o param.name
                                 \o " is missing"]
              ELSE [ok |-> TRUE, validated |-> validated]

\* the loop body without the check of the value's type: a supplied value
\* enters the validated dict as it is
ValidateOne_NoTypeCheck(param, kwargs, validated) ==
    IF param.name \in DOMAIN kwargs
    THEN [ok |-> TRUE,
          validated |-> DictSet(validated, param.name, kwargs[param.name])]
    ELSE IF param.required
         THEN IF param.default # None
              THEN [ok |-> TRUE,
                    validated |-> DictSet(validated, param.name, param.default)]
              ELSE [ok |-> FALSE, exc |-> "ValueError",
                    message |-> "Required parameter " \o param.name
                                 \o " is missing"]
         ELSE IF param.default # None
              THEN [ok |-> TRUE,
                    validated |-> DictSet(validated, param.name, param.default)]
              ELSE [ok |-> TRUE, validated |-> validated]

\* the loop body of validate_parameters for one parameter: the dict with the
\* parameter handled, or the ValueError raised
ValidateOne(param, kwargs, validated) ==
    IF param.name \in DOMAIN kwargs
    THEN LET value == kwargs[param.name]
             conv == Construct(param.type, value)
         IN  IF isinstance(value, param.type)
             THEN [ok |-> TRUE, validated |-> DictSet(validated, param.name, value)]
             ELSE IF conv.ok
                  THEN [ok |-> TRUE,
                        validated |-> DictSet(validated, param.name, conv.value)]
                  ELSE [ok |-> FALSE, exc |-> "ValueError",
                        message |-> "Parameter " \o param.name
                                     \o " must be of type " \o param.type]
    ELSE IF param.required
         THEN IF param.default # None
              THEN [ok |-> TRUE,
                    validated |-> DictSet(validated, param.name, param.default)]
              ELSE [ok |-> FALSE, exc |-> "ValueError",
                    message |-> "Required parameter " \o param.name
                                 \o " is missing"]
         ELSE IF param.default # None
              THEN [ok |-> TRUE,
                    validated |-> DictSet(validated, param.name, param.default)]
              ELSE [ok |-> TRUE, validated |-> validated]

RECURSIVE ValidateFrom(_, _, _, _)
ValidateFrom(parameters, kwargs, i, validated) ==
    IF i > Len(parameters)
    THEN [ok |-> TRUE, validated |-> validated]
    ELSE LET r == ValidateOne(parameters[i], kwargs, validated)
         IN  IF r.ok THEN ValidateFrom(parameters, kwargs, i + 1, r.validated)
             ELSE r

\* Tool.validate_parameters(**kwargs): the keywords are bound to the
\* signature (self, **kwargs) first, and a keyword named self collides with
\* the bound instance: TypeError before the body starts
validate_parameters(tool, kwargs) ==
    IF "self" \in DOMAIN kwargs
    THEN [ok |-> FALSE, exc |-> "TypeError",
          message |-> "Tool.validate_parameters() got multiple values for "
                        \o "argument 'self'"]
    ELSE ValidateFrom(tool.parameters, kwargs, 1, <<>>)

----------------------------------------------------------------------------
(* serena/tools: Tool, PlaceholderTool, ToolRegistry *)

\* A Tool object.  kind names the subclass, which fixes execute():
\*   "placeholder"  PlaceholderTool
\*   "echo"         validates, then returns the validated "text"
\*   "number"       returns the int 7
\*   "raise"        raises RuntimeError("boom")
Tool(name, description, kind, parameters) ==
    [name |-> name, description |-> description, kind |-> kind,
     parameters |-> parameters]

\* PlaceholderTool.__init__
PlaceholderTool(name, description) ==
    Tool(name, description, "placeholder",
         <<ToolParameter("query", "str", FALSE, StrV("")),
           ToolParameter("path", "str", FALSE, StrV("."))>>)

\* register_tool that keeps the tool already registered under the name
register_tool_KeepFirst(registry, tool) ==
    IF tool.name \in DictKeys(registry) THEN registry
    ELSE Append(registry, <<tool.name, tool>>)

\* register_tool that removes the name before it adds it, so that a name
\* registered again moves to the end
register_tool_MoveToEnd(registry, tool) ==
    Append(SelectSeq(registry, LAMBDA e : e[1] # tool.name), <<tool.name, tool>>)

\* ToolRegistry.register_tool
register_tool(registry, tool) == DictSet(registry, tool.name, tool)

\* unregister_tool that removes the name and every entry registered after it
unregister_tool_DropTail(registry, name) ==
    IF name \in DictKeys(registry)
    THEN SubSeq(registry, 1,
                (CHOOSE i \in 1..Len(registry) : registry[i][1] = name) - 1)
    ELSE registry

\* ToolRegistry.unregister_tool
unregister_tool(registry, name) ==
    IF name \in DictKeys(registry)
    THEN SelectSeq(registry, LAMBDA e : e[1] # name)
    ELSE registry

\* ToolRegistry.get_tool
get_tool(registry, name) ==
    IF name \in DictKeys(registry) THEN DictGet(registry, name) ELSE None

\* ToolRegistry.list_tools
list_tools(registry) == [i \in 1..Len(registry) |-> registry[i][1]]

builtin_tools ==
    << <<"find_symbol", "Find symbols in the codebase">>,
       <<"get_symbols_overview", "Get overview of symbols in a file">>,
       <<"find_referencing_symbols", "Find symbols that reference a given symbol">>,
       <<"search_for_pattern", "Search for patterns in the codebase">>,
       <<"list_dir", "List directory contents">>,
       <<"find_file", "Find files in the project">>,
       <<"edit_symbol", "Edit a symbol in the codebase">>,
       <<"create_file", "Create a new file">>,
       <<"delete_file", "Delete a file">>,
       <<"analyze_code", "Analyze code quality and structure">>,
       <<"generate_report", "Generate analysis reports">> >>

RECURSIVE LoadBuiltinFrom(_, _)
LoadBuiltinFrom(i, registry) ==
    IF i > Len(builtin_tools) THEN registry
    ELSE LoadBuiltinFrom(i + 1,
            register_tool(registry,
                PlaceholderTool(builtin_tools[i][1], builtin_tools[i][2])))

\* ToolRegistry.__init__ with _load_builtin_tools
ToolRegistry == LoadBuiltinFrom(1, <<>>)

----------------------------------------------------------------------------
(* serena/config/context_mode: SerenaAgentContext, SerenaAgentMode *)

SerenaAgentContext(name, toolNames, settings) ==
    [name |-> name, tools |-> toolNames, settings |-> settings]

SerenaAgentMode(name, enabled, disabled, settings) ==
    [name |-> name, enabled_tools |-> enabled, disabled_tools |-> disabled,
     settings |-> settings]

builtin_contexts ==
    [default |-> SerenaAgentContext("default",
                    <<"find_symbol", "get_symbols_overview", "search_for_pattern">>,
                    << <<"max_results", IntV("100")>>, <<"timeout", IntV("30")>> >>),
     minimal |-> SerenaAgentContext("minimal",
                    <<"find_symbol", "search_for_pattern">>,
                    << <<"max_results", IntV("50")>>, <<"timeout", IntV("15")>> >>),
     full    |-> SerenaAgentContext("full", <<>>,
                    << <<"max_results", IntV("500")>>, <<"timeout", IntV("60")>> >>)]

builtin_modes ==
    [interactive |-> SerenaAgentMode("interactive",
                        <<"ask_user", "show_message">>, <<>>,
                        << <<"interactive", BoolV("True")>>,
                           <<"auto_confirm", BoolV("False")>> >>),
     editing     |-> SerenaAgentMode("editing",
                        <<"edit_symbol", "create_file", "delete_file">>, <<>>,
                        << <<"backup_files", BoolV("True")>>,
                           <<"validate_syntax", BoolV("True")>> >>),
     analysis    |-> SerenaAgentMode("analysis",
                        <<"analyze_code", "generate_report">>,
                        <<"edit_symbol", "create_file", "delete_file">>,
                        << <<"deep_analysis", BoolV("True")>>,
                           <<"generate_metrics", BoolV("True")>> >>),
     monitoring  |-> SerenaAgentMode("monitoring",
                        <<"watch_files", "track_changes">>, <<>>,
                        << <<"watch_interval", StrV("1.0")>>,
                           <<"auto_refresh", BoolV("True")>> >>)]

\* SerenaAgentMode.is_tool_enabled
is_tool_enabled(mode, tool_name) ==
    IF \E i \in 1..Len(mode.disabled_tools) : mode.disabled_tools[i] = tool_name
    THEN FALSE
    ELSE IF Len(mode.enabled_tools) > 0
            /\ ~(\E i \in 1..Len(mode.enabled_tools) : mode.enabled_tools[i] = tool_name)
         THEN FALSE
         ELSE TRUE

\* constants.DEFAULT_MODES
DEFAULT_MODES == <<"interactive", "editing">>

----------------------------------------------------------------------------
(* serena/agent: SerenaAgent *)

\* SerenaAgent._load_default_tools: the names it looks up
default_tools ==
    <<"find_symbol", "get_symbols_overview", "find_referencing_symbols",
      "search_for_pattern", "list_dir", "find_file">>

\* get_available_tools returning only the default tools that were loaded
get_available_tools_defaults(registry) ==
    LET kept == SelectSeq(registry,
                    LAMBDA e : \E i \in 1..Len(default_tools) : default_tools[i] = e[1])
    IN  [i \in 1..Len(kept) |-> kept[i][2]]

\* SerenaAgent._load_mode_tools: mode_tools.get(mode.name, [])
mode_tools(name) ==
    CASE name = "interactive" -> <<"ask_user", "show_message">>
      [] name = "editing" -> <<"edit_symbol", "create_file", "delete_file">>
      [] name = "analysis" -> <<"analyze_code", "generate_report">>
      [] name = "monitoring" -> <<"watch_files", "track_changes">>
      [] OTHER -> <<>>

\* _load_tool raising for a name the registry does not hold
load_tool_Strict(registry, tool_name) ==
    IF get_tool(registry, tool_name) = None
    THEN [ok |-> FALSE, registry |-> registry, warnings |-> 0]
    ELSE [ok |-> TRUE, registry |-> registry, warnings |-> 0]

\* SerenaAgent._load_tool: the tool is looked up and the result logged;
\* get_tool does not raise for a str, so the except branch is not taken
load_tool(registry, tool_name) ==
    [ok |-> TRUE, registry |-> registry,
     warnings |-> IF get_tool(registry, tool_name) = None THEN 1 ELSE 0]

RECURSIVE LoadEach(_, _, _, _)
\* for tool_name in names: self._load_tool(tool_name), from the i-th name on.
\* guarded: the call stands in try/except Exception, which logs and goes on.
LoadEach(made, names, i, guarded) ==
    IF i > Len(names) \/ ~made.ok THEN made
    ELSE LET r == load_tool(made.registry, names[i])
         IN  LoadEach([ok |-> r.ok \/ guarded, registry |-> r.registry,
                       warnings |-> made.warnings + r.warnings
                                      + (IF r.ok THEN 0 ELSE 1)],
                      names, i + 1, guarded)

RECURSIVE LoadModes(_, _, _)
\* for mode in self.modes: self._load_mode_tools(mode), from the i-th mode on
LoadModes(made, ms, i) ==
    IF i > Len(ms) THEN made
    ELSE LoadModes(LoadEach(made, mode_tools(ms[i].name), 1, TRUE), ms, i + 1)

\* SerenaAgent._load_tools on a new registry: the default tools, the tools of
\* the modes, then config.tools
load_tools(registry, ms, names) ==
    LET start == [ok |-> TRUE, registry |-> registry, warnings |-> 0]
        defaults == LoadEach(start, default_tools, 1, TRUE)
    IN  LoadEach(LoadModes(defaults, ms, 1), names, 1, FALSE)

\* SerenaAgent.get_available_tools: list(self.tool_registry.tools.values())
get_available_tools(registry) == [i \in 1..Len(registry) |-> registry[i][2]]

\* config.settings of the SerenaConfig create_mcp_server builds: the field's
\* default, an empty dict
ConfigSettings == <<>>

\* SerenaAgent._apply_configuration: the settings the agent holds after it.
\* The method logs the context, the modes and config.settings and writes
\* nothing.
apply_configuration(ctx, ms, settings) == settings

\* the timeout mcp_tool_wrapper awaits the executor with: none
WrapperTimeout == None

----------------------------------------------------------------------------
(* Tool.execute of the subclasses *)

\* repr(value)
PyRepr(value) == IF value.t = "str" THEN "'" \o value.v \o "'" ELSE value.v

RECURSIVE DictReprFrom(_, _)
DictReprFrom(d, i) ==
    IF i > Len(d) THEN ""
    ELSE (IF i > 1 THEN ", " ELSE "") \o "'" \o d[i][1] \o "': "
         \o PyRepr(d[i][2]) \o DictReprFrom(d, i + 1)

\* str(dict)
DictRepr(d) == "{" \o DictReprFrom(d, 1) \o "}"

Raised(exc, message) == [ok |-> FALSE, exc |-> exc, message |-> message]

Returned(value) == [ok |-> TRUE, value |-> value]

\* await tool.execute(context, **kwargs): the value returned or the exception
\* raised.  PlaceholderTool.execute validates inside the executor.
execute(tool, kwargs) ==
    LET checked == validate_parameters(tool, kwargs)
    IN  CASE tool.kind = "placeholder" ->
                IF checked.ok
                THEN Returned(StrV("Placeholder tool '" \o tool.name
                                   \o "' executed with parameters: "
                                   \o DictRepr(checked.validated)))
                ELSE Raised(checked.exc, checked.message)
          [] tool.kind = "echo" ->
                IF ~checked.ok THEN Raised(checked.exc, checked.message)
                ELSE IF "text" \in DictKeys(checked.validated)
                     THEN Returned(DictGet(checked.validated, "text"))
                     ELSE Raised("KeyError", "'text'")
          [] tool.kind = "number" -> Returned(IntV("7"))
          [] OTHER -> Raised("RuntimeError", "boom")

----------------------------------------------------------------------------
(* serena/mcp: SerenaMCPFactory._register_tools, mcp_tool_wrapper *)

NoResponse == [kind |-> "none", text |-> ""]

NotCalled == [state |-> "none"]

NoRegistryCall == [op |-> "none"]

\* **kwargs of a call without arguments
EmptyKwargs == [n \in {} |-> None]

\* the wrapper without its except branch: the exception leaves the wrapper
WrapperResult_NoExcept(outcome) ==
    IF outcome.ok
    THEN [kind |-> "return", text |-> outcome.value.v, logged |-> FALSE]
    ELSE [kind |-> "propagate", text |-> outcome.message, logged |-> FALSE]

\* the body of mcp_tool_wrapper after the executor has finished: the string
\* returned on success, the "Error: ..." string of the except branch
WrapperResult(outcome) ==
    IF outcome.ok
    THEN [kind |-> "return", text |-> outcome.value.v, logged |-> FALSE]
    ELSE [kind |-> "return", text |-> "Error: " \o outcome.message,
          logged |-> TRUE]

\* the server's answer to a name no handler is registered for
UnknownTool(name) == [kind |-> "tool_error", text |-> "Unknown tool: " \o name]

CallIds == 1..MaxCalls

IdleCall ==
    [pc |-> "idle", name |-> "", kwargs |-> EmptyKwargs, tool |-> None, ctx |-> 0,
     entered |-> FALSE, outcome |-> Returned(None), response |-> NoResponse,
     after |-> 0]

HandlerNames == {handlers[i].name : i \in 1..Len(handlers)}

HandlerFor(name) == handlers[CHOOSE i \in 1..Len(handlers) : handlers[i].name = name]

\* SerenaAgent.__init__: a new ToolRegistry; _load_tools and
\* _apply_configuration only look tools up and log
CreateAgent(ctx, ms) ==
    /\ phase = "new"
    /\ phase' = "agent"
    /\ tools' = ToolRegistry
    /\ context' = ctx
    /\ modes' = ms
    /\ UNCHANGED <<handlers, calls, nextCtx, errors, unhandled,
                   vtool, vkwargs, vresult, vresponse,
                   rop, schema, scache, sret, sagain, loaded, xcall, ctools>>

\* SerenaAgent(config) with config.tools = names: __init__ makes a new
\* ToolRegistry and runs _load_tools and _apply_configuration on it; an
\* exception leaves no agent
CreateAgentWithTools(ctx, ms, names) ==
    /\ phase = "new"
    /\ LET made == load_tools(ToolRegistry, ms, names)
       IN  /\ phase' = IF made.ok THEN "agent" ELSE "failed"
           /\ tools' = made.registry
    /\ context' = ctx
    /\ modes' = ms
    /\ ctools' = names
    /\ UNCHANGED <<handlers, calls, nextCtx, errors, unhandled,
                   vtool, vkwargs, vresult, vresponse,
                   rop, schema, scache, sret, sagain, loaded, xcall>>

\* agent.tool_registry.register_tool(tool)
RegisterTool(tool) ==
    /\ phase # "new"
    /\ tools' = register_tool(tools, tool)
    /\ UNCHANGED <<phase, context, modes, handlers, calls, nextCtx, errors,
                   unhandled, vtool, vkwargs, vresult, vresponse,
                   rop, schema, scache, sret, sagain, loaded, xcall, ctools>>

\* agent.tool_registry.unregister_tool(name)
UnregisterTool(name) ==
    /\ phase # "new"
    /\ tools' = unregister_tool(tools, name)
    /\ UNCHANGED <<phase, context, modes, handlers, calls, nextCtx, errors,
                   unhandled, vtool, vkwargs, vresult, vresponse,
                   rop, schema, scache, sret, sagain, loaded, xcall, ctools>>

\* agent.context = ctx, or a write to the fields of the context object, by
\* the code that holds the agent
SetContext(ctx) ==
    /\ phase # "new"
    /\ context' = ctx
    /\ UNCHANGED <<phase, tools, modes, handlers, calls, nextCtx, errors,
                   unhandled, vtool, vkwargs, vresult, vresponse,
                   rop, schema, scache, sret, sagain, loaded, xcall, ctools>>

\* agent.modes = ms, or a write to the list or to the fields of a mode object
SetModes(ms) ==
    /\ phase # "new"
    /\ modes' = ms
    /\ UNCHANGED <<phase, tools, context, handlers, calls, nextCtx, errors,
                   unhandled, vtool, vkwargs, vresult, vresponse,
                   rop, schema, scache, sret, sagain, loaded, xcall, ctools>>

\* SerenaMCPFactory._register_tools: one wrapper per tool of
\* agent.get_available_tools()
RegisterTools ==
    /\ phase = "agent"
    /\ phase' = "serving"
    /\ handlers' = get_available_tools(tools)
    /\ UNCHANGED <<tools, context, modes, calls, nextCtx, errors, unhandled,
                   vtool, vkwargs, vresult, vresponse,
                   rop, schema, scache, sret, sagain, loaded, xcall, ctools>>

\* the request served by looking the tool up in the registry when the call
\* arrives, instead of by the wrapper bound at registration
CallStart_FromRegistry(c, name, kwargs) ==
    /\ phase = "serving"
    /\ ~unhandled
    /\ calls[c].pc = "idle"
    /\ nextCtx < MaxRequests
    /\ IF name \in DictKeys(tools)
       THEN /\ calls' = [calls EXCEPT ![c] =
                           [IdleCall EXCEPT !.pc = "executing", !.name = name,
                                            !.kwargs = kwargs,
                                            !.tool = get_tool(tools, name),
                                            !.ctx = nextCtx + 1,
                                            !.entered = TRUE,
                                            !.after = errors]]
            /\ nextCtx' = nextCtx + 1
       ELSE /\ calls' = [calls EXCEPT ![c] =
                           [IdleCall EXCEPT !.pc = "done", !.name = name,
                                            !.kwargs = kwargs,
                                            !.response = UnknownTool(name),
                                            !.after = errors]]
            /\ nextCtx' = nextCtx
    /\ UNCHANGED <<phase, tools, context, modes, handlers, errors, unhandled,
                   vtool, vkwargs, vresult, vresponse,
                   rop, schema, scache, sret, sagain, loaded, xcall, ctools>>

\* the wrapper handing every call the one request context built for the
\* first
CallStart_SharedContext(c, name, kwargs) ==
    /\ phase = "serving"
    /\ ~unhandled
    /\ calls[c].pc = "idle"
    /\ nextCtx < MaxRequests
    /\ IF name \in HandlerNames
       THEN /\ calls' = [calls EXCEPT ![c] =
                           [IdleCall EXCEPT !.pc = "executing", !.name = name,
                                            !.kwargs = kwargs,
                                            !.tool = HandlerFor(name),
                                            !.ctx = 1,
                                            !.entered = TRUE,
                                            !.after = errors]]
            /\ nextCtx' = 1
       ELSE /\ calls' = [calls EXCEPT ![c] =
                           [IdleCall EXCEPT !.pc = "done", !.name = name,
                                            !.kwargs = kwargs,
                                            !.response = UnknownTool(name),
                                            !.after = errors]]
            /\ nextCtx' = nextCtx
    /\ UNCHANGED <<phase, tools, context, modes, handlers, errors, unhandled,
                   vtool, vkwargs, vresult, vresponse,
                   rop, schema, scache, sret, sagain, loaded, xcall, ctools>>

\* A request {tool: name, arguments: kwargs} arrives.  A name with a handler
\* runs mcp_tool_wrapper up to the await: the request context is constructed
\* and the executor is entered with the arguments as they came.
CallStart(c, name, kwargs) ==
    /\ phase = "serving"
    /\ ~unhandled
    /\ calls[c].pc = "idle"
    /\ nextCtx < MaxRequests
    /\ IF name \in HandlerNames
       THEN /\ calls' = [calls EXCEPT ![c] =
                           [IdleCall EXCEPT !.pc = "executing", !.name = name,
                                            !.kwargs = kwargs,
                                            !.tool = HandlerFor(name),
                                            !.ctx = nextCtx + 1,
                                            !.entered = TRUE,
                                            !.after = errors]]
            /\ nextCtx' = nextCtx + 1
       ELSE /\ calls' = [calls EXCEPT ![c] =
                           [IdleCall EXCEPT !.pc = "done", !.name = name,
                                            !.kwargs = kwargs,
                                            !.response = UnknownTool(name),
                                            !.after = errors]]
            /\ nextCtx' = nextCtx
    /\ UNCHANGED <<phase, tools, context, modes, handlers, errors, unhandled,
                   vtool, vkwargs, vresult, vresponse,
                   rop, schema, scache, sret, sagain, loaded, xcall, ctools>>

\* the executor run on the arguments of the request that arrived last, as
\* if the wrappers kept them in one place for all calls
ExecutorRun_SharedArgs(c) ==
    /\ calls[c].pc = "executing"
    /\ LET last == CHOOSE d \in CallIds :
                        /\ calls[d].ctx > 0
                        /\ \A e \in CallIds : calls[e].ctx <= calls[d].ctx
       IN  calls' = [calls EXCEPT ![c].pc = "finished",
                                  ![c].outcome = execute(calls[c].tool,
                                                         calls[last].kwargs)]
    /\ UNCHANGED <<phase, tools, context, modes, handlers, nextCtx, errors,
                   unhandled, vtool, vkwargs, vresult, vresponse,
                   rop, schema, scache, sret, sagain, loaded, xcall, ctools>>

\* the executor runs to its return or raise
ExecutorRun(c) ==
    /\ calls[c].pc = "executing"
    /\ calls' = [calls EXCEPT ![c].pc = "finished",
                              ![c].outcome = execute(calls[c].tool, calls[c].kwargs)]
    /\ UNCHANGED <<phase, tools, context, modes, handlers, nextCtx, errors,
                   unhandled, vtool, vkwargs, vresult, vresponse,
                   rop, schema, scache, sret, sagain, loaded, xcall, ctools>>

\* the wrapper resumes after the await: it returns the result as a string, or
\* logs the exception and returns the error string
WrapperFinish(c) ==
    /\ calls[c].pc = "finished"
    /\ LET r == WrapperResult(calls[c].outcome)
       IN  /\ calls' = [calls EXCEPT ![c].pc = "done",
                                     ![c].response = [kind |-> r.kind,
                                                      text |-> r.text]]
           /\ unhandled' = (unhandled \/ r.kind = "propagate")
           /\ errors' = IF r.logged THEN errors + 1 ELSE errors
    /\ UNCHANGED <<phase, tools, context, modes, handlers, nextCtx,
                   vtool, vkwargs, vresult, vresponse,
                   rop, schema, scache, sret, sagain, loaded, xcall, ctools>>

\* the response is sent; the request context is discarded
Release(c) ==
    /\ calls[c].pc = "done"
    /\ calls' = [calls EXCEPT ![c] = IdleCall]
    /\ UNCHANGED <<phase, tools, context, modes, handlers, nextCtx, errors,
                   unhandled, vtool, vkwargs, vresult, vresponse,
                   rop, schema, scache, sret, sagain, loaded, xcall, ctools>>

----------------------------------------------------------------------------
(* JSON values: what json.loads gives for a schema_json, what json.dumps    *)
(* takes.  Every value is a record tagged with its Python type; a dict      *)
(* keeps its pairs in document order, as the text and the Python dict do.   *)

JStr(s) == [k |-> "str", s |-> s]

\* an int, by its decimal text
JInt(s) == [k |-> "int", s |-> s]

\* a float, by the text repr() gives
JFloat(s) == [k |-> "float", s |-> s]

\* True or False
JBool(s) == [k |-> "bool", s |-> s]

JNone == [k |-> "NoneType", s |-> "null"]

JList(elems) == [k |-> "list", elems |-> elems]

JDict(pairs) == [k |-> "dict", pairs |-> pairs]

\* node.get(key)
JGet(node, key) ==
    IF key \in DictKeys(node.pairs) THEN DictGet(node.pairs, key) ELSE JNone

\* node[key] = value
JSet(node, key, value) == JDict(DictSet(node.pairs, key, value))

\* if key not in node: node[key] = value
JSetDefault(node, key, value) ==
    IF key \in DictKeys(node.pairs) THEN node ELSE JSet(node, key, value)

\* node.pop(key)
JPop(node, key) == JDict(SelectSeq(node.pairs, LAMBDA pair : pair[1] # key))

\* isinstance(v, int): bool is a subclass of int
IsPyInt(v) == v.k \in {"int", "bool"}

\* float(v) for an int or a bool
PyFloat(v) ==
    IF v.k = "bool" THEN JFloat(IF v.s = "True" THEN "1.0" ELSE "0.0")
    ELSE JFloat(v.s \o ".0")

Elements(q) == {q[i] : i \in 1..Len(q)}

----------------------------------------------------------------------------
(* serena/tools: Tool.get_schema *)

\* Tool._get_json_type, for the types a ToolParameter is declared with here
get_json_type(type) ==
    CASE type = "str" -> "string"
      [] type = "int" -> "integer"
      [] type = "float" -> "number"
      [] type = "bool" -> "boolean"
      [] OTHER -> "string"

RECURSIVE SchemaProperties(_, _, _)
\* schema["parameters"]["properties"] after the loop over the parameters
\* from the i-th on; a parameter's description is the empty string
SchemaProperties(parameters, i, properties) ==
    IF i > Len(parameters) THEN properties
    ELSE SchemaProperties(parameters, i + 1,
            DictSet(properties, parameters[i].name,
                    JDict(<< <<"type", JStr(get_json_type(parameters[i].type))>>,
                             <<"description", JStr("")>> >>)))

\* schema["parameters"]["required"]
SchemaRequired(parameters) ==
    LET required == SelectSeq(parameters, LAMBDA param : param.required)
    IN  [i \in 1..Len(required) |-> JStr(required[i].name)]

\* Tool.get_schema(): the dict json.dumps is given
get_schema(tool) ==
    JDict(<< <<"name", JStr(tool.name)>>,
             <<"description", JStr(tool.description)>>,
             <<"parameters",
               JDict(<< <<"type", JStr("object")>>,
                        <<"properties",
                          JDict(SchemaProperties(tool.parameters, 1, <<>>))>>,
                        <<"required",
                          JList(SchemaRequired(tool.parameters))>> >>)>> >>)

----------------------------------------------------------------------------
(* serena/mcp: SerenaMCPFactory._sanitize_for_openai_tools *)

\* "handle type" doing one rewrite of a type list per call: "null" entries
\* are dropped if there are any, and only a list without "null" has its
\* "integer" entries replaced
WalkType_OneRewrite(node) ==
    LET t == JGet(node, "type")
    IN  IF t.k = "str"
        THEN IF t = JStr("integer")
             THEN JSetDefault(JSet(node, "type", JStr("number")),
                              "multipleOf", JInt("1"))
             ELSE node
        ELSE IF t.k = "list"
        THEN LET kept == SelectSeq(t.elems, LAMBDA x : x # JStr("null"))
                 mapped == IF kept # t.elems THEN kept
                           ELSE [i \in 1..Len(kept) |->
                                   IF kept[i] = JStr("integer")
                                   THEN JStr("number") ELSE kept[i]]
                 t2 == IF mapped = <<>> THEN <<JStr("object")>> ELSE mapped
                 typed == JSet(node, "type",
                               IF Len(t2) = 1 THEN t2[1] ELSE JList(t2))
             IN  IF \/ JStr("integer") \in Elements(t.elems)
                    \/ JStr("number") \in Elements(t2)
                 THEN JSetDefault(typed, "multipleOf", JInt("1"))
                 ELSE typed
        ELSE node

\* "handle type" that sets multipleOf to 1 whatever the node had
WalkType_ResetMultipleOf(node) ==
    LET t == JGet(node, "type")
    IN  IF t.k = "str"
        THEN IF t = JStr("integer")
             THEN JSet(JSet(node, "type", JStr("number")), "multipleOf", JInt("1"))
             ELSE node
        ELSE IF t.k = "list"
        THEN LET kept == SelectSeq(t.elems, LAMBDA x : x # JStr("null"))
                 mapped == [i \in 1..Len(kept) |->
                               IF kept[i] = JStr("integer") THEN JStr("number")
                               ELSE kept[i]]
                 t2 == IF mapped = <<>> THEN <<JStr("object")>> ELSE mapped
                 typed == JSet(node, "type",
                               IF Len(t2) = 1 THEN t2[1] ELSE JList(t2))
             IN  IF \/ JStr("integer") \in Elements(t.elems)
                    \/ JStr("number") \in Elements(t2)
                 THEN JSet(typed, "multipleOf", JInt("1"))
                 ELSE typed
        ELSE node

\* "handle type" that leaves a cleaned type list a list, also when one type
\* or none remains
WalkType_ListKept(node) ==
    LET t == JGet(node, "type")
    IN  IF t.k = "str"
        THEN IF t = JStr("integer")
             THEN JSetDefault(JSet(node, "type", JStr("number")),
                              "multipleOf", JInt("1"))
             ELSE node
        ELSE IF t.k = "list"
        THEN LET kept == SelectSeq(t.elems, LAMBDA x : x # JStr("null"))
                 t2 == [i \in 1..Len(kept) |->
                           IF kept[i] = JStr("integer") THEN JStr("number")
                           ELSE kept[i]]
                 typed == JSet(node, "type", JList(t2))
             IN  IF \/ JStr("integer") \in Elements(t.elems)
                    \/ JStr("number") \in Elements(t2)
                 THEN JSetDefault(typed, "multipleOf", JInt("1"))
                 ELSE typed
        ELSE node

\* walk, "handle type": the node after the statements on node["type"]
WalkType(node) ==
    LET t == JGet(node, "type")
    IN  IF t.k = "str"
        THEN IF t = JStr("integer")
             THEN JSetDefault(JSet(node, "type", JStr("number")),
                              "multipleOf", JInt("1"))
             ELSE node
        ELSE IF t.k = "list"
        THEN LET kept == SelectSeq(t.elems, LAMBDA x : x # JStr("null"))
                 mapped == [i \in 1..Len(kept) |->
                               IF kept[i] = JStr("integer") THEN JStr("number")
                               ELSE kept[i]]
                 t2 == IF mapped = <<>> THEN <<JStr("object")>> ELSE mapped
                 typed == JSet(node, "type",
                               IF Len(t2) = 1 THEN t2[1] ELSE JList(t2))
             IN  IF \/ JStr("integer") \in Elements(t.elems)
                    \/ JStr("number") \in Elements(t2)
                 THEN JSetDefault(typed, "multipleOf", JInt("1"))
                 ELSE typed
        ELSE node

\* walk, "handle enum": the node after the statements on node["enum"]
WalkEnum(node) ==
    LET enum_vals == JGet(node, "enum")
    IN  IF /\ enum_vals.k = "list"
           /\ enum_vals.elems # <<>>
           /\ \A i \in 1..Len(enum_vals.elems) : IsPyInt(enum_vals.elems[i])
        THEN LET floats == JSet(node, "enum",
                                JList([i \in 1..Len(enum_vals.elems) |->
                                          PyFloat(enum_vals.elems[i])]))
             IN  IF JGet(floats, "type") = JStr("integer")
                 THEN JSetDefault(JSet(floats, "type", JStr("number")),
                                  "multipleOf", JInt("1"))
                 ELSE floats
        ELSE node

\* walk returned: the node as the in-place changes left it
Walked(node) == [ok |-> TRUE, node |-> node]

RECURSIVE JUpdate(_, _, _)
\* node.update(other), from the i-th pair of other on
JUpdate(node, other, i) ==
    IF i > Len(other.pairs) THEN node
    ELSE JUpdate(JSet(node, other.pairs[i][1], other.pairs[i][2]), other, i + 1)

RECURSIVE walk(_), WalkEach(_, _), WalkItems(_, _)

\* for item in value: walk(item)
WalkEach(elems, i) ==
    IF i > Len(elems) THEN Walked(JList(elems))
    ELSE LET r == walk(elems[i])
         IN  IF r.ok THEN WalkEach([elems EXCEPT ![i] = r.node], i + 1) ELSE r

\* walk, "recursively handle nested structures": the loop over node.items()
\* from the i-th pair on.  After node.pop(key) and node.update(merged) the
\* loop's next step raises if the dict has another size, and goes on with
\* the pairs that follow otherwise.
WalkItems(node, i) ==
    IF i > Len(node.pairs) THEN Walked(node)
    ELSE
    LET key == node.pairs[i][1]
        value == node.pairs[i][2]
    IN  IF key \in {"properties", "additionalProperties", "items"}
        THEN IF value.k = "dict"
             THEN LET r == walk(value)
                  IN  IF r.ok THEN WalkItems(JSet(node, key, r.node), i + 1)
                      ELSE r
             ELSE IF value.k = "list"
             THEN LET r == WalkEach(value.elems, 1)
                  IN  IF r.ok THEN WalkItems(JSet(node, key, r.node), i + 1)
                      ELSE r
             ELSE WalkItems(node, i + 1)
        ELSE IF key \in {"oneOf", "anyOf", "allOf"} /\ value.k = "list"
        THEN LET r == WalkEach(value.elems, 1)
             IN  IF ~r.ok THEN r
                 ELSE
                 LET walked == JSet(node, key, r.node)
                     branches == r.node.elems
                 IN  IF key \in {"oneOf", "anyOf"} /\ Len(branches) = 2
                     THEN IF \E j \in 1..2 : branches[j].k # "dict"
                          THEN Raised("AttributeError",
                                      "object has no attribute 'get'")
                          ELSE
                          LET types == [j \in 1..2 |-> JGet(branches[j], "type")]
                          IN  IF \E j \in 1..2 : types[j].k \in {"list", "dict"}
                              THEN Raised("TypeError", "unhashable type")
                              ELSE IF Elements(types)
                                        = {JStr("integer"), JStr("number")}
                              THEN LET merged ==
                                         JSetDefault(JSet(branches[1], "type",
                                                          JStr("number")),
                                                     "multipleOf", JInt("1"))
                                       updated ==
                                         JUpdate(JPop(walked, key), merged, 1)
                                   IN  IF Len(updated.pairs) # Len(walked.pairs)
                                       THEN Raised("RuntimeError",
                                             "dictionary changed size during iteration")
                                       ELSE WalkItems(updated, i)
                              ELSE WalkItems(walked, i + 1)
                     ELSE WalkItems(walked, i + 1)
        ELSE WalkItems(node, i + 1)

\* walk(node)
walk(node) ==
    IF node.k # "dict" THEN Walked(node)
    ELSE WalkItems(WalkEnum(WalkType(node)), 1)

\* the body of _sanitize_for_openai_tools: json.loads and deepcopy give a new
\* object, walk changes it in place, and it is returned
sanitize_for_openai_tools(schema_json) == walk(schema_json)

----------------------------------------------------------------------------
(* Calls of _sanitize_for_openai_tools through its lru_cache *)

\* functools.lru_cache(maxsize=None) around the body: a hit returns the
\* object stored for the key, a miss runs the body and stores what it
\* returns; an exception is not stored
CachedCall(cache, schema_json) ==
    IF schema_json \in DictKeys(cache)
    THEN [result |-> [state |-> "returned", value |-> DictGet(cache, schema_json)],
          cache |-> cache]
    ELSE LET r == sanitize_for_openai_tools(schema_json)
         IN  IF r.ok
             THEN [result |-> [state |-> "returned", value |-> r.node],
                   cache |-> DictSet(cache, schema_json, r.node)]
             ELSE [result |-> [state |-> "raised", exc |-> r.exc],
                   cache |-> cache]

\* _sanitize_for_openai_tools(schema)
Sanitize ==
    /\ Len(sret) < MaxSanitize
    /\ LET call == CachedCall(scache, schema)
       IN  /\ sret' = Append(sret, call.result)
           /\ scache' = call.cache
    /\ UNCHANGED <<phase, tools, context, modes, handlers, calls, nextCtx,
                   errors, unhandled, vtool, vkwargs, vresult, vresponse,
                   rop, schema, sagain, loaded, xcall, ctools>>

\* _sanitize_for_openai_tools(json.dumps(result)), result being the dict the
\* first call returned
SanitizeAgain ==
    /\ sret # <<>>
    /\ sret[1].state = "returned"
    /\ sagain = NotCalled
    /\ LET call == CachedCall(scache, DictGet(scache, schema))
       IN  /\ sagain' = call.result
           /\ scache' = call.cache
    /\ UNCHANGED <<phase, tools, context, modes, handlers, calls, nextCtx,
                   errors, unhandled, vtool, vkwargs, vresult, vresponse,
                   rop, schema, sret, loaded, xcall, ctools>>

\* a caller writes to the dict it was returned: result["title"] = "changed".
\* The dict is the object the cache holds.
MutateResult ==
    /\ schema \in DictKeys(scache)
    /\ DictGet(scache, schema).k = "dict"
    /\ scache' = DictSet(scache, schema,
                         JSet(DictGet(scache, schema), "title", JStr("changed")))
    /\ UNCHANGED <<phase, tools, context, modes, handlers, calls, nextCtx,
                   errors, unhandled, vtool, vkwargs, vresult, vresponse,
                   rop, schema, sret, sagain, loaded, xcall, ctools>>

----------------------------------------------------------------------------
(* Calls of the methods of one ToolRegistry.  rop keeps the call, what it   *)
(* returned, and what list_tools() returned right before it.                *)

RegistryCall(op, name, tool, result) ==
    [op |-> op, name |-> name, tool |-> tool, result |-> result,
     before |-> list_tools(tools)]

\* registry.register_tool(tool)
RegistryRegister(tool) ==
    /\ tools' = register_tool(tools, tool)
    /\ rop' = RegistryCall("register_tool", tool.name, tool, None)
    /\ UNCHANGED <<phase, context, modes, handlers, calls, nextCtx, errors,
                   unhandled, vtool, vkwargs, vresult, vresponse,
                   schema, scache, sret, sagain, loaded, xcall, ctools>>

\* registry.unregister_tool(name)
RegistryUnregister(name) ==
    /\ tools' = unregister_tool(tools, name)
    /\ rop' = RegistryCall("unregister_tool", name, None, None)
    /\ UNCHANGED <<phase, context, modes, handlers, calls, nextCtx, errors,
                   unhandled, vtool, vkwargs, vresult, vresponse,
                   schema, scache, sret, sagain, loaded, xcall, ctools>>

\* registry.get_tool(name)
RegistryGet(name) ==
    /\ rop' = RegistryCall("get_tool", name, None, get_tool(tools, name))
    /\ UNCHANGED <<phase, tools, context, modes, handlers, calls, nextCtx,
                   errors, unhandled, vtool, vkwargs, vresult, vresponse,
                   schema, scache, sret, sagain, loaded, xcall, ctools>>

\* registry.list_tools()
RegistryList ==
    /\ rop' = RegistryCall("list_tools", "", None,
                           [t |-> "list", names |-> list_tools(tools)])
    /\ UNCHANGED <<phase, tools, context, modes, handlers, calls, nextCtx,
                   errors, unhandled, vtool, vkwargs, vresult, vresponse,
                   schema, scache, sret, sagain, loaded, xcall, ctools>>

----------------------------------------------------------------------------
(* A Tool built with add_parameter, then validated or invoked *)

\* Tool.add_parameter, for a parameter name not declared yet
AddParameter(param) ==
    /\ vresult = NotCalled
    /\ vresponse = NoResponse
    /\ Len(vtool.parameters) < MaxParams
    /\ \A i \in 1..Len(vtool.parameters) : vtool.parameters[i].name # param.name
    /\ vtool' = [vtool EXCEPT !.parameters = Append(@, param)]
    /\ UNCHANGED <<phase, tools, context, modes, handlers, calls, nextCtx,
                   errors, unhandled, vkwargs, vresult, vresponse,
                   rop, schema, scache, sret, sagain, loaded, xcall, ctools>>

\* vtool.validate_parameters(**vkwargs)
ValidateCall ==
    /\ vresult = NotCalled
    /\ vresponse = NoResponse
    /\ LET r == validate_parameters(vtool, vkwargs)
       IN  vresult' = IF r.ok
                      THEN [state |-> "returned", validated |-> r.validated]
                      ELSE [state |-> "raised", exc |-> r.exc,
                            message |-> r.message]
    /\ UNCHANGED <<phase, tools, context, modes, handlers, calls, nextCtx,
                   errors, unhandled, vtool, vkwargs, vresponse,
                   rop, schema, scache, sret, sagain, loaded, xcall, ctools>>

\* mcp_tool_wrapper(**vkwargs) of the wrapper bound to vtool, start to end
InvokeTool ==
    /\ vresponse = NoResponse
    /\ LET r == WrapperResult(execute(vtool, vkwargs))
       IN  vresponse' = [kind |-> r.kind, text |-> r.text]
    /\ UNCHANGED <<phase, tools, context, modes, handlers, calls, nextCtx,
                   errors, unhandled, vtool, vkwargs, vresult,
                   rop, schema, scache, sret, sagain, loaded, xcall, ctools>>

----------------------------------------------------------------------------
(* serena/config/context_mode: SerenaAgentContext.load, SerenaAgentMode.load *)
(* A path is in one of these states: no such file, a directory, a file with *)
(* a text, or a path stat() fails on with an error other than "not found"   *)
(* (a name longer than the file system allows, a directory that may not be  *)
(* searched).                                                               *)

\* the fields of the dataclass SerenaAgentContext; name has no default
ContextFields == {"name", "description", "settings", "tools", "memory_settings"}

\* the fields of the dataclass SerenaAgentMode; name has no default
ModeFields ==
    {"name", "description", "enabled_tools", "disabled_tools", "settings"}

NoSuchFile == [stat |-> "absent"]

Directory == [stat |-> "dir"]

StatError == [stat |-> "error"]

File(text) == [stat |-> "file", text |-> text]

\* a text that is not JSON
MalformedText == [k |-> "malformed"]

\* Path(name).exists(): pathlib re-raises an OSError of stat() that is not
\* "not found" (ENOENT, ENOTDIR, EBADF, ELOOP); os.path.exists, which newer
\* interpreters call, answers False for it.  Both outcomes are possible.
PathExists(state) ==
    CASE state.stat = "absent" -> {Returned(FALSE)}
      [] state.stat = "error" ->
            {Raised("OSError", "File name too long"), Returned(FALSE)}
      [] OTHER -> {Returned(TRUE)}

\* with open(file, 'r') as f: data = json.load(f)
json_load(state) ==
    IF state.stat = "dir" THEN Raised("IsADirectoryError", "Is a directory")
    ELSE IF state.text = MalformedText
    THEN Raised("JSONDecodeError", "Expecting value")
    ELSE Returned(state.text)

\* cls(**data) of a dataclass: the instance holds the values as they were
\* given; the annotated types of the fields are not checked
cls(fields, data) ==
    IF data.k # "dict"
    THEN Raised("TypeError", "argument after ** must be a mapping")
    ELSE IF ~(DictKeys(data.pairs) \subseteq fields)
    THEN Raised("TypeError", "got an unexpected keyword argument")
    ELSE IF "name" \notin DictKeys(data.pairs)
    THEN Raised("TypeError", "missing 1 required positional argument: 'name'")
    ELSE Returned([fields |-> data])

\* what load does after the look-up among the built-in presets failed:
\* exists() and the suffix test, then json.load and cls(**data) inside the
\* try, then the fallback
LoadFromFile(fields, fallback, suffix, state, exists) ==
    IF ~exists.ok
    THEN [outcome |-> exists, stat |-> TRUE, opened |-> FALSE, warnings |-> 0]
    ELSE IF exists.value /\ suffix = ".json"
    THEN LET data == json_load(state)
             made == IF data.ok THEN cls(fields, data.value) ELSE data
         IN  [outcome |-> IF made.ok THEN made ELSE Returned(fallback),
              stat |-> TRUE, opened |-> TRUE,
              warnings |-> IF made.ok THEN 0 ELSE 2]
    ELSE [outcome |-> Returned(fallback), stat |-> TRUE, opened |-> FALSE,
          warnings |-> 1]

\* SerenaAgentContext.load(context) for a str; stem \o suffix is the name
LoadContextFrom(stem, suffix, state, exists) ==
    IF stem \o suffix \in DOMAIN builtin_contexts
    THEN [outcome |-> Returned(builtin_contexts[stem \o suffix]),
          stat |-> FALSE, opened |-> FALSE, warnings |-> 0]
    ELSE LoadFromFile(ContextFields, builtin_contexts["default"],
                      suffix, state, exists)

\* SerenaAgentMode.load(mode) for a str
LoadModeFrom(stem, suffix, state, exists) ==
    IF stem \o suffix \in DOMAIN builtin_modes
    THEN [outcome |-> Returned(builtin_modes[stem \o suffix]),
          stat |-> FALSE, opened |-> FALSE, warnings |-> 0]
    ELSE LoadFromFile(ModeFields, builtin_modes["interactive"],
                      suffix, state, exists)

LoadCall(class, stem, suffix, state, result) ==
    [state |-> "called", class |-> class, name |-> stem \o suffix,
     suffix |-> suffix, path |-> state, outcome |-> result.outcome,
     stat |-> result.stat, opened |-> result.opened,
     warnings |-> result.warnings]

\* SerenaAgentContext.load(name) with the path of that name in the given state
LoadContext(stem, suffix, state) ==
    /\ loaded = NotCalled
    /\ \E exists \in PathExists(state) :
         loaded' = LoadCall("context", stem, suffix, state,
                            LoadContextFrom(stem, suffix, state, exists))
    /\ UNCHANGED <<phase, tools, context, modes, handlers, calls, nextCtx,
                   errors, unhandled, vtool, vkwargs, vresult, vresponse,
                   rop, schema, scache, sret, sagain, xcall, ctools>>

\* SerenaAgentMode.load(name) with the path of that name in the given state
LoadMode(stem, suffix, state) ==
    /\ loaded = NotCalled
    /\ \E exists \in PathExists(state) :
         loaded' = LoadCall("mode", stem, suffix, state,
                            LoadModeFrom(stem, suffix, state, exists))
    /\ UNCHANGED <<phase, tools, context, modes, handlers, calls, nextCtx,
                   errors, unhandled, vtool, vkwargs, vresult, vresponse,
                   rop, schema, scache, sret, sagain, xcall, ctools>>

----------------------------------------------------------------------------
(* serena/agent: SerenaAgent.execute_tool *)

\* what calling an async def gives: a coroutine object; the body has not
\* started
Coroutine(tool, kwargs) == [t |-> "coroutine", tool |-> tool, kwargs |-> kwargs]

\* SerenaAgent.execute_tool(tool_name, **kwargs): Tool.execute is an async
\* def, and it is called without await
execute_tool(registry, tool_name, kwargs) ==
    LET tool == get_tool(registry, tool_name)
    IN  IF tool = None
        THEN Raised("SerenaException", "Tool not found: " \o tool_name)
        ELSE Returned(Coroutine(tool, kwargs))

\* agent.execute_tool(tool_name, **kwargs)
ExecuteTool(tool_name, kwargs) ==
    /\ phase = "agent"
    /\ xcall' = [state |-> "called", name |-> tool_name, kwargs |-> kwargs,
                 tool |-> get_tool(tools, tool_name),
                 outcome |-> execute_tool(tools, tool_name, kwargs),
                 awaited |-> NotCalled]
    /\ UNCHANGED <<phase, tools, context, modes, handlers, calls, nextCtx,
                   errors, unhandled, vtool, vkwargs, vresult, vresponse,
                   rop, schema, scache, sret, sagain, loaded, ctools>>

\* the caller awaits what execute_tool returned: the executor runs now,
\* outside execute_tool's try
AwaitResult ==
    /\ xcall.state = "called"
    /\ xcall.outcome.ok
    /\ xcall.awaited = NotCalled
    /\ xcall' = [xcall EXCEPT !.awaited = execute(xcall.outcome.value.tool,
                                                  xcall.outcome.value.kwargs)]
    /\ UNCHANGED <<phase, tools, context, modes, handlers, calls, nextCtx,
                   errors, unhandled, vtool, vkwargs, vresult, vresponse,
                   rop, schema, scache, sret, sagain, loaded, ctools>>

----------------------------------------------------------------------------
(* Inputs *)

NoContext == SerenaAgentContext("", <<>>, <<>>)

\* contexts loaded from files
FileContexts ==
    {SerenaAgentContext("project", <<"list_dir", "echo">>, <<>>)}

\* modes loaded from files
FileModes ==
    {SerenaAgentMode("readonly", <<>>, <<"edit_symbol", "find_symbol">>, <<>>),
     SerenaAgentMode("search", <<"find_symbol", "list_dir">>, <<>>, <<>>)}

Contexts == {builtin_contexts[n] : n \in DOMAIN builtin_contexts} \cup FileContexts

Modes == {builtin_modes[n] : n \in DOMAIN builtin_modes} \cup FileModes

ModeLists == UNION {[1..n -> Modes] : n \in 0..MaxModes}

\* the modes create_mcp_server loads
DefaultModeList == [i \in 1..Len(DEFAULT_MODES) |-> builtin_modes[DEFAULT_MODES[i]]]

EchoTool == Tool("echo", "Echo the text", "echo",
                 <<ToolParameter("text", "str", TRUE, None)>>)

BoomTool == Tool("boom", "Always fails", "raise", <<>>)

NumberTool == Tool("number", "Returns a number", "number", <<>>)

\* another contract under the name "echo": other description, other executor
EchoAgain == Tool("echo", "Echo, second version", "number", <<>>)

\* a contract under the name of a built-in tool
ListDirAgain == Tool("list_dir", "List a directory, replaced", "echo",
                     <<ToolParameter("text", "str", TRUE, None)>>)

RegisteredTools == {EchoTool, EchoAgain, BoomTool, ListDirAgain}

RegistryNames == {"echo", "boom", "list_dir", "find_symbol", "nothing"}

ParamNames == {"text", "count", "flag"}

ParamTypes == {"str", "int"}

ParamDefaults == {None, StrV("dflt")}

Params ==
    {ToolParameter(n, t, r, d) :
        n \in ParamNames, t \in ParamTypes, r \in BOOLEAN, d \in ParamDefaults}

ArgValues == {StrV("hi"), IntV("7")}

KwargSets == UNION {[S -> ArgValues] : S \in SUBSET ParamNames}

\* arguments of a call under declared names, names no tool declares, and
\* the name of the method's first parameter
AnyKwargSets == UNION {[S -> ArgValues] : S \in SUBSET {"text", "extra", "self"}}

\* the names config.tools is made of: registered ones and ones nobody
\* registered
ConfiguredNames == {"find_symbol", "nothing", "ask_user"}

ConfiguredTools == UNION {[1..n -> ConfiguredNames] : n \in 0..MaxToolNames}

\* the modes an agent is constructed with: modes whose tools are registered,
\* modes whose tools nobody registered, a mode loaded from a file
ConstructModes ==
    {builtin_modes["interactive"], builtin_modes["analysis"],
     SerenaAgentMode("readonly", <<>>, <<"edit_symbol", "find_symbol">>, <<>>)}

ConstructModeLists == UNION {[1..n -> ConstructModes] : n \in 0..MaxModes}

\* the names given to load are LoadStems x LoadSuffixes
LoadStems == {"default", "interactive", "nosuch", "ctx"}

LoadSuffixes == {"", ".json", ".txt"}

\* the texts of the files
FileTexts ==
    {MalformedText,
     JList(<<JStr("x")>>),
     JStr("x"),
     JDict(<< <<"name", JStr("x")>> >>),
     JDict(<< <<"name", JStr("x")>>, <<"settings", JDict(<<>>)>> >>),
     JDict(<< <<"name", JStr("x")>>,
              <<"tools", JList(<<JStr("find_symbol")>>)>> >>),
     JDict(<< <<"name", JStr("x")>>,
              <<"enabled_tools", JList(<<JStr("find_symbol")>>)>> >>),
     JDict(<< <<"settings", JDict(<<>>)>> >>),
     JDict(<< <<"name", JStr("x")>>, <<"colour", JStr("red")>> >>),
     JDict(<< <<"name", JStr("x")>>, <<"settings", JInt("5")>> >>),
     JDict(<< <<"name", JInt("5")>> >>)}

PathStates == {NoSuchFile, Directory, StatError} \cup {File(t) : t \in FileTexts}

\* Schemas: the "type" of a node, absent or one of these
TypeValues ==
    {JStr("integer"), JStr("number"), JStr("string"),
     JList(<<JStr("integer"), JStr("null")>>),
     JList(<<JStr("null")>>),
     JList(<<JStr("string"), JStr("null")>>),
     JList(<<JStr("string"), JStr("integer")>>),
     JList(<<JStr("number"), JStr("string")>>),
     JList(<<JStr("number"), JStr("null")>>)}

\* the "enum" of a node, absent or one of these
EnumValues ==
    {JList(<<JInt("1"), JInt("2"), JInt("3")>>),
     JList(<<JStr("a")>>),
     JList(<<JBool("True"), JBool("False")>>),
     JList(<<JInt("1"), JStr("a")>>),
     JList(<<>>)}

Field(key, values) == {<<>>} \cup {<< <<key, v>> >> : v \in values}

\* a node without nested schemas
LeafSchemas ==
    {JDict(t \o e \o m) : t \in Field("type", TypeValues),
                          e \in Field("enum", EnumValues),
                          m \in Field("multipleOf", {JInt("5")})}

\* the branches of a oneOf, anyOf or allOf
BranchSchemas ==
    {JDict(<< <<"type", JStr("integer")>> >>),
     JDict(<< <<"type", JStr("integer")>>, <<"description", JStr("n")>> >>),
     JDict(<< <<"type", JStr("number")>> >>),
     JDict(<< <<"type", JStr("string")>> >>),
     JDict(<< <<"type", JList(<<JStr("integer"), JStr("null")>>)>> >>),
     JDict(<< <<"type", JList(<<JStr("string"), JStr("integer")>>)>> >>),
     JBool("True")}

UnionSchemas ==
    {JDict(<< <<key, JList(<<a, b>>)>> >>) :
        key \in {"oneOf", "anyOf", "allOf"}, a \in BranchSchemas, b \in BranchSchemas}

RECURSIVE NestedSchemas(_)
\* schemas with up to d nodes around a branch or a union
NestedSchemas(d) ==
    IF d = 0 THEN BranchSchemas \cup UnionSchemas
    ELSE LET inner == NestedSchemas(d - 1)
         IN  inner
             \cup {JDict(<< <<"type", JStr("object")>>,
                            <<"properties", JDict(<< <<"x", c>> >>)>> >>) :
                     c \in inner}
             \cup {JDict(<< <<"type", JStr("array")>>, <<"items", c>> >>) :
                     c \in inner}
             \cup {JDict(<< <<"additionalProperties", c>> >>) : c \in inner}

\* the tools whose descriptor is sanitized
DescribedTools ==
    {EchoTool, NumberTool, PlaceholderTool("find_symbol", "Find a symbol")}
        \cup {Tool("tool", "", "echo", <<p>>) : p \in Params}

\* what a caller passes as schema_json: a schema, a tool's descriptor, or a
\* descriptor's parameter schema
Schemas ==
    LeafSchemas \cup NestedSchemas(MaxDepth)
        \cup {get_schema(tool) : tool \in DescribedTools}
        \cup {JGet(get_schema(tool), "parameters") : tool \in DescribedTools}

---------
(* Specifications *)

InitSession ==
    /\ phase = "new"
    /\ tools = <<>>
    /\ context = NoContext
    /\ modes = <<>>
    /\ handlers = <<>>
    /\ calls = [c \in CallIds |-> IdleCall]
    /\ nextCtx = 0
    /\ errors = 0
    /\ unhandled = FALSE

Init ==
    /\ InitSession
    /\ vtool = EchoTool
    /\ vkwargs = EmptyKwargs
    /\ vresult = NotCalled
    /\ vresponse = NoResponse
    /\ rop = NoRegistryCall
    /\ schema = JNone
    /\ scache = <<>>
    /\ sret = <<>>
    /\ sagain = NotCalled
    /\ loaded = NotCalled
    /\ xcall = NotCalled
    /\ ctools = <<>>

\* One session of the server: the agent of create_mcp_server, tools added to
\* its registry (echo, then boom), the handlers bound, concurrent invocations.
\* Requests take the slots in order.
Next ==
    \/ CreateAgent(builtin_contexts["full"], DefaultModeList)
    \/ phase = "agent" /\ RegisterTool(EchoTool)
    \/ phase = "agent" /\ "echo" \in DictKeys(tools) /\ RegisterTool(BoomTool)
    \/ RegisterTools
    \/ \E c \in CallIds, name \in {"find_symbol", "echo", "boom"},
          kwargs \in {EmptyKwargs, [n \in {"text"} |-> StrV("hi")]} :
            /\ \A d \in CallIds : d < c => calls[d].pc # "idle"
            /\ CallStart(c, name, kwargs)
    \/ \E c \in CallIds : ExecutorRun(c)
    \/ \E c \in CallIds : WrapperFinish(c)

Spec == Init /\ [][Next]_vars

\* Sessions over every context and list of modes, with one invocation at a
\* time.
NextPolicy ==
    \/ \E ctx \in Contexts, ms \in ModeLists : CreateAgent(ctx, ms)
    \/ phase = "agent" /\ RegisterTool(EchoTool)
    \/ phase = "agent" /\ UnregisterTool("list_dir")
    \/ RegisterTools
    \/ \E name \in {"find_symbol", "list_dir", "edit_symbol", "echo"} :
            CallStart(1, name, EmptyKwargs)
    \/ ExecutorRun(1)
    \/ WrapperFinish(1)
    \/ Release(1)

SpecPolicy == Init /\ [][NextPolicy]_vars

\* A session with tools whose executor returns a caller's string, a value
\* that is not a string, or raises; requests name them or a tool nobody
\* registered.
NextEncode ==
    \/ CreateAgent(builtin_contexts["full"], DefaultModeList)
    \/ phase = "agent" /\ RegisterTool(EchoTool)
    \/ phase = "agent" /\ "echo" \in DictKeys(tools) /\ RegisterTool(BoomTool)
    \/ phase = "agent" /\ "boom" \in DictKeys(tools) /\ RegisterTool(NumberTool)
    \/ RegisterTools
    \/ \E c \in {1, 2}, name \in {"echo", "boom", "number", "nothing"},
          kwargs \in {EmptyKwargs, [n \in {"text"} |-> StrV("Error: boom")]} :
            CallStart(c, name, kwargs)
    \/ \E c \in {1, 2} : ExecutorRun(c)
    \/ \E c \in {1, 2} : WrapperFinish(c)
    \/ \E c \in {1, 2} : Release(c)

SpecEncode == Init /\ [][NextEncode]_vars

\* A session whose registry, context and modes are written to while it
\* serves: tools are registered, registered again under another contract and
\* unregistered, before and after the handlers are bound and with calls in
\* flight.
NextSession ==
    \/ CreateAgent(builtin_contexts["full"], <<>>)
    \/ \E tool \in {EchoTool, EchoAgain} : RegisterTool(tool)
    \/ UnregisterTool("echo")
    \/ RegisterTools
    \/ \E ctx \in {builtin_contexts["full"], builtin_contexts["minimal"]} :
         SetContext(ctx)
    \/ \E ms \in {<<>>, <<builtin_modes["analysis"]>>} : SetModes(ms)
    \/ \E c \in {1, 2}, name \in {"echo", "find_symbol"} :
         CallStart(c, name, [n \in {"text"} |-> StrV("hi")])
    \/ \E c \in {1, 2} : ExecutorRun(c)
    \/ \E c \in {1, 2} : WrapperFinish(c)
    \/ \E c \in {1, 2} : Release(c)

SpecSession == Init /\ [][NextSession]_vars

\* An agent with echo and boom added to its registry; execute_tool is called
\* with names in and not in the registry, and its result is awaited.
NextExecute ==
    \/ CreateAgent(builtin_contexts["full"], DefaultModeList)
    \/ \E tool \in {EchoTool, BoomTool} : RegisterTool(tool)
    \/ \E tool_name \in {"echo", "boom", "find_symbol", "list_dir", "nothing"},
          kwargs \in {EmptyKwargs, [n \in {"text"} |-> StrV("hi")],
                      [n \in {"query"} |-> StrV("hi")]} :
         ExecuteTool(tool_name, kwargs)
    \/ AwaitResult

SpecExecute == Init /\ [][NextExecute]_vars

\* Construction of an agent for every context, list of modes and list of
\* explicitly configured tool names
NextConstruct ==
    \E ctx \in {builtin_contexts["full"], builtin_contexts["minimal"]},
       ms \in ConstructModeLists, names \in ConfiguredTools :
         CreateAgentWithTools(ctx, ms, names)

SpecConstruct == Init /\ [][NextConstruct]_vars

InitSanitize ==
    /\ InitSession
    /\ vtool = EchoTool
    /\ vkwargs = EmptyKwargs
    /\ vresult = NotCalled
    /\ vresponse = NoResponse
    /\ rop = NoRegistryCall
    /\ schema \in Schemas
    /\ scache = <<>>
    /\ sret = <<>>
    /\ sagain = NotCalled
    /\ loaded = NotCalled
    /\ xcall = NotCalled
    /\ ctools = <<>>

\* The sanitizer as a function: called with a schema, and with the
\* serialization of what it returned.
NextSanitize ==
    \/ Sanitize
    \/ SanitizeAgain

SpecSanitize == InitSanitize /\ [][NextSanitize]_vars

\* The sanitizer and a caller that writes to the result it was given.
NextCache ==
    \/ Sanitize
    \/ MutateResult

SpecCache == InitSanitize /\ [][NextCache]_vars

\* a ToolRegistry after __init__
InitRegistry ==
    /\ phase = "new"
    /\ tools = ToolRegistry
    /\ context = NoContext
    /\ modes = <<>>
    /\ handlers = <<>>
    /\ calls = [c \in CallIds |-> IdleCall]
    /\ nextCtx = 0
    /\ errors = 0
    /\ unhandled = FALSE
    /\ vtool = EchoTool
    /\ vkwargs = EmptyKwargs
    /\ vresult = NotCalled
    /\ vresponse = NoResponse
    /\ rop = NoRegistryCall
    /\ schema = JNone
    /\ scache = <<>>
    /\ sret = <<>>
    /\ sagain = NotCalled
    /\ loaded = NotCalled
    /\ xcall = NotCalled
    /\ ctools = <<>>

\* Any sequence of calls of the registry's methods.
NextRegistry ==
    \/ \E tool \in RegisteredTools : RegistryRegister(tool)
    \/ \E name \in RegistryNames : RegistryUnregister(name)
    \/ \E name \in RegistryNames : RegistryGet(name)
    \/ RegistryList

SpecRegistry == InitRegistry /\ [][NextRegistry]_vars

NextLoad ==
    \/ \E stem \in LoadStems, suffix \in LoadSuffixes, state \in PathStates :
         LoadContext(stem, suffix, state)
    \/ \E stem \in LoadStems, suffix \in LoadSuffixes, state \in PathStates :
         LoadMode(stem, suffix, state)

\* one call of load, of either class, on any name and any state of its path
SpecLoad == InitRegistry /\ [][NextLoad]_vars

InitValidate ==
    /\ InitSession
    /\ vtool = Tool("tool", "", "echo", <<>>)
    /\ vkwargs \in KwargSets
    /\ vresult = NotCalled
    /\ vresponse = NoResponse
    /\ rop = NoRegistryCall
    /\ schema = JNone
    /\ scache = <<>>
    /\ sret = <<>>
    /\ sagain = NotCalled
    /\ loaded = NotCalled
    /\ xcall = NotCalled
    /\ ctools = <<>>

NextValidate ==
    \/ \E param \in Params : AddParameter(param)
    \/ ValidateCall
    \/ InvokeTool

SpecValidate == InitValidate /\ [][NextValidate]_vars

InitValidateAny ==
    /\ InitSession
    /\ vtool = Tool("tool", "", "echo", <<>>)
    /\ vkwargs \in AnyKwargSets
    /\ vresult = NotCalled
    /\ vresponse = NoResponse
    /\ rop = NoRegistryCall
    /\ schema = JNone
    /\ scache = <<>>
    /\ sret = <<>>
    /\ sagain = NotCalled
    /\ loaded = NotCalled
    /\ xcall = NotCalled
    /\ ctools = <<>>

NextValidateAny ==
    \/ \E param \in Params : AddParameter(param)
    \/ ValidateCall

\* validate_parameters called with arguments the tool does not declare
SpecValidateAny == InitValidateAny /\ [][NextValidateAny]_vars

----------------------------------------------------------------------------
(* The capability policy the claims state *)

SeqToSet(q) == {q[i] : i \in 1..Len(q)}

\* the names of a list of Tool objects
ToolNames(list) == {list[i].name : i \in 1..Len(list)}

\* what the session exposes: the names get_available_tools returns and, once
\* the handlers are bound, the names with a handler
Exposed ==
    ToolNames(get_available_tools(tools))
        \cup (IF phase = "serving" THEN HandlerNames ELSE {})

Base(registry, ctx) ==
    IF Len(ctx.tools) > 0 THEN SeqToSet(ctx.tools) ELSE SeqToSet(list_tools(registry))

Deny(ms) == UNION {SeqToSet(ms[i].disabled_tools) : i \in 1..Len(ms)}

AllowOverlays(ms) ==
    {SeqToSet(ms[i].enabled_tools) : i \in {j \in 1..Len(ms) : Len(ms[j].enabled_tools) > 0}}

\* visible = base - deny, or (base /\ union of the overlays) - deny
Visible(registry, ctx, ms) ==
    IF AllowOverlays(ms) = {}
    THEN Base(registry, ctx) \ Deny(ms)
    ELSE (Base(registry, ctx) \cap UNION AllowOverlays(ms)) \ Deny(ms)

\* registered, but hidden by the policy
Hidden(name) ==
    /\ name \in DictKeys(tools)
    /\ \/ name \in Deny(modes)
       \/ Len(context.tools) > 0 /\ name \notin SeqToSet(context.tools)

----------------------------------------------------------------------------
(* C1: a tool name in disabled_tools of an active mode is not among the     *)
(* tools the session exposes (get_available_tools, the bound handlers),     *)
(* whatever the other modes enable and whatever the context whitelists.     *)
C1_DisabledNeverExposed ==
    phase # "new" => \A x \in Deny(modes) : x \notin Exposed

(* C2: with a non-empty context whitelist, every exposed tool is a member   *)
(* of the whitelist.                                                        *)
C2_ExposedWithinWhitelist ==
    (phase # "new" /\ Len(context.tools) > 0)
        => Exposed \subseteq SeqToSet(context.tools)

(* C3: the exposed set is base - deny without enable overlays, else         *)
(* (base intersect union of the overlays) - deny.                           *)
C3_ExposedIsResolved ==
    phase # "new" => Exposed = Visible(tools, context, modes)

(* C4: with an empty whitelist and no active modes, the exposed tools are   *)
(* exactly the names in the registry, each once: get_available_tools at any *)
(* time, the handlers as bound from the registry.                           *)
C4_UnrestrictedExposesRegistry ==
    (phase # "new" /\ Len(context.tools) = 0 /\ Len(modes) = 0)
        => /\ ToolNames(get_available_tools(tools)) = SeqToSet(list_tools(tools))
           /\ Len(get_available_tools(tools)) = Cardinality(SeqToSet(list_tools(tools)))
           /\ phase = "serving"
                => /\ HandlerNames = SeqToSet(list_tools(tools))
                   /\ Len(handlers) = Cardinality(HandlerNames)

\* an unrestricted session is serving a registry that was changed after
\* construction
C4_Witness ==
    /\ phase = "serving"
    /\ Len(context.tools) = 0
    /\ Len(modes) = 0
    /\ "echo" \in HandlerNames
    /\ "list_dir" \notin HandlerNames
    /\ "find_symbol" \in HandlerNames

(* C5: a registered tool hidden by policy answers an invocation with "tool  *)
(* not found" without its executor running, and list_tools still returns    *)
(* its name.                                                                *)
C5_HiddenToolNotFound ==
    \A c \in CallIds :
        (calls[c].pc # "idle" /\ Hidden(calls[c].name))
            => /\ ~calls[c].entered
               /\ calls[c].pc = "done" => calls[c].response.kind = "tool_error"
               /\ calls[c].name \in SeqToSet(list_tools(tools))

----------------------------------------------------------------------------
\* the response the wrapper bound to tool gives to kwargs when the call runs
\* alone
AloneResponse(tool, kwargs) ==
    LET r == WrapperResult(execute(tool, kwargs))
    IN  [kind |-> r.kind, text |-> r.text]

(* C6: when the executor raises, the wrapper returns an error payload and   *)
(* no exception reaches the serving loop; invocations made after a failure  *)
(* are served as usual: a visible tool is executed and a successful result  *)
(* is returned as it is.                                                    *)
C6_ExecutorFailureContained ==
    /\ ~unhandled
    /\ \A c \in CallIds :
        calls[c].pc = "done"
            => /\ (calls[c].entered /\ ~calls[c].outcome.ok)
                    => calls[c].response =
                         [kind |-> "return",
                          text |-> "Error: " \o calls[c].outcome.message]
               /\ calls[c].after > 0
                    => /\ calls[c].name \in HandlerNames => calls[c].entered
                       /\ (calls[c].entered /\ calls[c].outcome.ok)
                            => calls[c].response =
                                 [kind |-> "return",
                                  text |-> calls[c].outcome.value.v]

\* a call failed in its executor, and a call that started after that failure
\* was handled has returned its result
C6_Witness ==
    \E c, d \in CallIds :
        /\ calls[c].pc = "done" /\ calls[c].entered /\ ~calls[c].outcome.ok
        /\ calls[c].response.text = "Error: boom"
        /\ calls[d].pc = "done" /\ calls[d].entered /\ calls[d].outcome.ok
        /\ calls[d].after > 0
        /\ calls[d].response = [kind |-> "return", text |-> "hi"]

(* C7: of two invocations of distinct visible tools, in any interleaving,   *)
(* the one whose executor raises returns an execution error, the other      *)
(* returns what it returns when run alone, and the session keeps accepting  *)
(* calls.                                                                   *)
C7_ConcurrentCallsIndependent ==
    \A c, d \in CallIds :
        (/\ c # d
         /\ calls[c].pc = "done" /\ calls[c].entered
         /\ calls[d].pc = "done" /\ calls[d].entered
         /\ calls[c].name # calls[d].name
         /\ ~execute(calls[c].tool, calls[c].kwargs).ok)
            => /\ calls[c].response =
                    [kind |-> "return",
                     text |-> "Error: "
                              \o execute(calls[c].tool, calls[c].kwargs).message]
               /\ calls[d].response = AloneResponse(calls[d].tool, calls[d].kwargs)
               /\ ~unhandled
               /\ \A e \in CallIds :
                    (calls[e].pc = "idle" /\ nextCtx < MaxRequests)
                        => ENABLED CallStart(e, "find_symbol", EmptyKwargs)

\* the two calls overlapped: c started first, d started before c's failure
\* was handled; c failed, d returned its result, and a third call was served
\* afterwards
C7_Witness ==
    \E c, d, e \in CallIds :
        /\ calls[c].pc = "done" /\ calls[d].pc = "done" /\ calls[e].pc = "done"
        /\ calls[c].name = "boom" /\ calls[c].response.text = "Error: boom"
        /\ calls[d].name = "echo" /\ calls[d].response.text = "hi"
        /\ 0 < calls[c].ctx /\ calls[c].ctx < calls[d].ctx
        /\ calls[d].after = 0
        /\ calls[e].after > 0 /\ calls[e].entered /\ calls[e].outcome.ok

(* C8: an invocation whose arguments fail the tool's parameter contract is  *)
(* rejected before the executor is started: the executor is never entered   *)
(* for it.                                                                  *)
C8_InvalidArgsNeverEnterExecutor ==
    \A c \in CallIds :
        (/\ calls[c].pc # "idle"
         /\ calls[c].name \in HandlerNames
         /\ ~validate_parameters(HandlerFor(calls[c].name), calls[c].kwargs).ok)
            => ~calls[c].entered

----------------------------------------------------------------------------
(* Validation claims, on a tool built from Params and called with vkwargs *)

\* the message names the parameter: it is one of the validation messages
\* written around that name
NamesParameter(message, name) ==
    \E before \in {"Required parameter ", "Parameter "},
       after \in {" is missing"} \cup {" must be of type " \o t : t \in ParamTypes} :
        message = before \o name \o after

\* the wrapper's answer is its error string with a message naming the
\* parameter
ErrorNamesParameter(response, name) ==
    /\ response.kind = "return"
    /\ \E before \in {"Required parameter ", "Parameter "},
          after \in {" is missing"} \cup {" must be of type " \o t : t \in ParamTypes} :
            response.text = "Error: " \o before \o name \o after

\* the required parameter is absent from the call and has no default
Missing(param) ==
    param.required /\ param.default = None /\ param.name \notin DOMAIN vkwargs

\* the supplied value is not of the declared type and cannot be converted
Unconvertible(param) ==
    /\ param.name \in DOMAIN vkwargs
    /\ ~isinstance(vkwargs[param.name], param.type)
    /\ ~Construct(param.type, vkwargs[param.name]).ok

\* the first declared parameter that fails validation
FirstOffender ==
    vtool.parameters[CHOOSE i \in 1..Len(vtool.parameters) :
        /\ Missing(vtool.parameters[i]) \/ Unconvertible(vtool.parameters[i])
        /\ \A j \in 1..(i - 1) :
             ~(Missing(vtool.parameters[j]) \/ Unconvertible(vtool.parameters[j]))]

C10_SuppliedValueBeatsDefault ==
    vresult.state = "returned"
        => \A i \in 1..Len(vtool.parameters) :
            LET param == vtool.parameters[i]
            IN  /\ param.name \in DOMAIN vkwargs
                    => /\ param.name \in DictKeys(vresult.validated)
                       /\ \/ DictGet(vresult.validated, param.name)
                                = vkwargs[param.name]
                          \/ /\ Construct(param.type, vkwargs[param.name]).ok
                             /\ DictGet(vresult.validated, param.name)
                                  = Construct(param.type, vkwargs[param.name]).value
                       /\ DictGet(vresult.validated, param.name) # param.default
                /\ (param.name \notin DOMAIN vkwargs /\ param.default # None)
                    => /\ param.name \in DictKeys(vresult.validated)
                       /\ DictGet(vresult.validated, param.name) = param.default

\* one parameter with a default is present and was converted, another with a
\* default is absent
C10_Witness ==
    /\ vresult.state = "returned"
    /\ \E i, j \in 1..Len(vtool.parameters) :
        /\ vtool.parameters[i].default # None
        /\ vtool.parameters[i].name \in DOMAIN vkwargs
        /\ vtool.parameters[i].type = "str"
        /\ vkwargs[vtool.parameters[i].name] = IntV("7")
        /\ DictGet(vresult.validated, vtool.parameters[i].name) = StrV("7")
        /\ vtool.parameters[j].default # None
        /\ vtool.parameters[j].required
        /\ vtool.parameters[j].name \notin DOMAIN vkwargs
        /\ DictGet(vresult.validated, vtool.parameters[j].name) = StrV("dflt")

----------------------------------------------------------------------------
\* str(e) of the exceptions the executors of echo and boom raise
ExecutorMessages == {"boom", "Required parameter text is missing"}

\* what a client can take for an error: the server's error answer, or a text
\* of the form the wrapper gives to an exception
IsErrorPayload(response) ==
    \/ response.kind = "tool_error"
    \/ \E m \in ExecutorMessages : response.text = "Error: " \o m

(* C12: the response to an invocation is an error payload exactly when the  *)
(* tool was not found, validation failed or the executor raised; a          *)
(* successful result is returned as a success payload (a string as it is,   *)
(* another value in its string form) that the client can tell apart from an *)
(* error payload.                                                           *)
C12_ErrorPayloadIffFailure ==
    \A c \in CallIds :
        calls[c].pc = "done"
            => /\ IsErrorPayload(calls[c].response)
                    <=> (~calls[c].entered \/ ~calls[c].outcome.ok)
               /\ (calls[c].entered /\ calls[c].outcome.ok)
                    => /\ calls[c].response.kind = "return"
                       /\ calls[c].response.text = calls[c].outcome.value.v

----------------------------------------------------------------------------
(* What the sanitizer's claims speak of *)

\* the node's type is "integer", or a list with "integer" or "null" in it
BadType(node) ==
    LET t == JGet(node, "type")
    IN  \/ t = JStr("integer")
        \/ /\ t.k = "list"
           /\ \/ JStr("integer") \in Elements(t.elems)
              \/ JStr("null") \in Elements(t.elems)

\* the schemas directly under a node: each property's schema, items,
\* additionalProperties, the branches of oneOf, anyOf and allOf
SubSchemas(node) ==
    LET under(key) ==
            LET value == JGet(node, key)
            IN  IF value.k = "dict" THEN {value}
                ELSE IF value.k = "list" THEN Elements(value.elems)
                ELSE {}
        properties == JGet(node, "properties")
    IN  (IF properties.k = "dict"
         THEN {properties.pairs[i][2] : i \in 1..Len(properties.pairs)}
         ELSE {})
        \cup under("items") \cup under("additionalProperties")
        \cup under("oneOf") \cup under("anyOf") \cup under("allOf")

RECURSIVE NoBadType(_)
\* no node reachable from this one has a bad type
NoBadType(node) ==
    node.k = "dict"
        => /\ ~BadType(node)
           /\ \A sub \in SubSchemas(node) : NoBadType(sub)

RECURSIVE Canon(_)
\* a value up to the order of the keys of its dicts, which == on Python
\* dicts does not look at
Canon(value) ==
    IF value.k = "dict"
    THEN [k |-> "dict",
          items |-> {<<value.pairs[i][1], Canon(value.pairs[i][2])>> :
                        i \in 1..Len(value.pairs)}]
    ELSE IF value.k = "list"
    THEN [k |-> "list",
          elems |-> [i \in 1..Len(value.elems) |-> Canon(value.elems[i])]]
    ELSE value

(* C13: no node of the sanitized output reachable through properties,       *)
(* items, additionalProperties or a oneOf/anyOf/allOf branch has type       *)
(* "integer" or a type list containing "integer" or "null"; this holds in   *)
(* particular for the parameter schema of a tool descriptor made by         *)
(* Tool.get_schema.                                                         *)
C13_NoIntegerNoNull ==
    \A i \in 1..Len(sret) :
        sret[i].state = "returned"
            => /\ NoBadType(sret[i].value)
               /\ (sret[i].value.k = "dict"
                     /\ JGet(sret[i].value, "parameters").k = "dict")
                    => NoBadType(JGet(sret[i].value, "parameters"))

(* C14: sanitizing is idempotent: the sanitizer applied to the              *)
(* serialization of its result returns a value equal to that result.        *)
C14_Idempotent ==
    sagain # NotCalled
        => /\ sagain.state = "returned"
           /\ Canon(sagain.value) = Canon(sret[1].value)

\* a schema the sanitizer changed (an integer-or-null type, an all-integer
\* enum), sanitized, and its result sanitized again
C14_Witness ==
    /\ schema = JDict(<< <<"type", JList(<<JStr("integer"), JStr("null")>>)>>,
                         <<"enum", JList(<<JInt("1"), JInt("2"), JInt("3")>>)>> >>)
    /\ sret # <<>>
    /\ sret[1].state = "returned"
    /\ Canon(sret[1].value) # Canon(schema)
    /\ sagain # NotCalled
    /\ sagain.state = "returned"

\* the schema has, under key, exactly two branches, one of type "integer"
\* and one of type "number"
IntegerNumberUnion(node, key) ==
    /\ node.k = "dict"
    /\ JGet(node, key).k = "list"
    /\ Len(JGet(node, key).elems) = 2
    /\ \A j \in 1..2 : JGet(node, key).elems[j].k = "dict"
    /\ {JGet(JGet(node, key).elems[j], "type") : j \in 1..2}
          = {JStr("integer"), JStr("number")}

(* C15: a oneOf or anyOf with exactly two branches, one of type "integer"   *)
(* and one of type "number", is collapsed: the output node has no oneOf or  *)
(* anyOf key and is a single node of type "number" with multipleOf 1 that   *)
(* carries the non-type fields of the first branch.                         *)
C15_IntegerNumberUnionCollapsed ==
    \A key \in {"oneOf", "anyOf"} :
        (IntegerNumberUnion(schema, key) /\ sret # <<>>)
            => /\ sret[1].state = "returned"
               /\ LET out == sret[1].value
                      first == JGet(schema, key).elems[1]
                  IN  /\ DictKeys(out.pairs) \cap {"oneOf", "anyOf"} = {}
                      /\ JGet(out, "type") = JStr("number")
                      /\ JGet(out, "multipleOf") = JInt("1")
                      /\ \A i \in 1..Len(first.pairs) :
                            first.pairs[i][1] # "type"
                                => JGet(out, first.pairs[i][1]) = first.pairs[i][2]

\* the nodes of the schema the claims on one node are checked for, each with
\* the node the output has in its place: the root and the schema under
\* items or additionalProperties
SanitizedNodes ==
    IF sret = <<>> \/ sret[1].state # "returned" \/ schema.k # "dict" THEN {}
    ELSE {<<schema, sret[1].value>>}
         \cup {<<JGet(schema, key), JGet(sret[1].value, key)>> :
                 key \in {key \in {"items", "additionalProperties"} :
                             JGet(schema, key).k = "dict"}}

\* the values of a list as floats
Floats(elems) == [i \in 1..Len(elems) |-> JFloat(elems[i].s \o ".0")]

CleanedTypes(elems) ==
    LET kept == SelectSeq(elems, LAMBDA x : x # JStr("null"))
    IN  [i \in 1..Len(kept) |->
            IF kept[i] = JStr("integer") THEN JStr("number") ELSE kept[i]]

C18_SameResultEveryCall ==
    \A i \in 1..Len(sret) :
        /\ sret[i].state = sret[1].state
        /\ sret[i].state = "returned"
            => Canon(sret[i].value) = Canon(sret[1].value)

----------------------------------------------------------------------------
(* C19: after any sequence of register and unregister calls the registry    *)
(* holds at most one contract per name; registering a name that is present  *)
(* leaves the number of entries unchanged, does not fail, and makes         *)
(* get(name) return the contract of the second registration.                *)
C19_OneContractPerName ==
    /\ \A i, j \in 1..Len(tools) : tools[i][1] = tools[j][1] => i = j
    /\ \A i \in 1..Len(tools) : tools[i][2].name = tools[i][1]
    /\ rop.op = "register_tool"
        => /\ get_tool(tools, rop.name) = rop.tool
           /\ rop.name \in SeqToSet(rop.before)
                => Len(tools) = Len(rop.before)

\* "echo" was registered, then registered again with another description
\* and another executor
C19_Witness ==
    /\ rop.op = "register_tool"
    /\ rop.tool = EchoAgain
    /\ "echo" \in SeqToSet(rop.before)
    /\ get_tool(tools, "echo").description = "Echo, second version"
    /\ get_tool(tools, "echo").kind = "number"
    /\ Len(tools) = Len(rop.before)

\* the names of ToolRegistry's built-in tools, in the order of the list
BuiltinNames == [i \in 1..Len(builtin_tools) |-> builtin_tools[i][1]]

(* C20: list() returns exactly the names currently registered, each once,   *)
(* in the order in which they were inserted: a new name goes to the end, a  *)
(* name registered again keeps its place, the other names keep their order  *)
(* when one is removed.                                                     *)
C20_ListInInsertionOrder ==
    LET names == list_tools(tools)
    IN  /\ SeqToSet(names) = DictKeys(tools)
        /\ Len(names) = Cardinality(DictKeys(tools))
        /\ rop.op = "none" => names = BuiltinNames
        /\ rop.op = "register_tool"
            => names = IF rop.name \in SeqToSet(rop.before) THEN rop.before
                       ELSE Append(rop.before, rop.name)
        /\ rop.op = "unregister_tool"
            => names = SelectSeq(rop.before, LAMBDA n : n # rop.name)
        /\ rop.op = "get_tool" => names = rop.before
        /\ rop.op = "list_tools"
            => names = rop.before /\ rop.result.names = names

\* list() is called after list_dir was removed and registered again and
\* echo was registered: both stand after the built-in tools, in that order
C20_Witness ==
    /\ rop.op = "list_tools"
    /\ Len(rop.result.names) = Len(BuiltinNames) + 1
    /\ rop.result.names[Len(BuiltinNames)] = "list_dir"
    /\ rop.result.names[Len(BuiltinNames) + 1] = "echo"
    /\ \A i \in 1..(Len(BuiltinNames) - 1) :
         rop.result.names[i] = SelectSeq(BuiltinNames, LAMBDA n : n # "list_dir")[i]

(* C21: unregister(name) of a present name removes exactly that entry and   *)
(* leaves every other entry and their order unchanged; unregister of an     *)
(* absent name leaves the registry unchanged and raises nothing; get(name)  *)
(* never changes the registry and returns None for an absent name.          *)
C21_UnregisterAndGetFrame ==
    [][/\ rop'.op = "unregister_tool"
            => /\ tools' = SelectSeq(tools, LAMBDA e : e[1] # rop'.name)
               /\ rop'.name \notin DictKeys(tools) => tools' = tools
               /\ rop'.result = None
       /\ rop'.op = "get_tool"
            => /\ tools' = tools
               /\ rop'.name \notin DictKeys(tools) => rop'.result = None
               /\ rop'.name \in DictKeys(tools)
                    => rop'.result = DictGet(tools, rop'.name)]_vars

\* the built-in list_dir was unregistered, which left the ten other built-in
\* tools and echo, registered before, in their order
C21_Witness ==
    /\ rop.op = "unregister_tool"
    /\ rop.name = "list_dir"
    /\ "list_dir" \in SeqToSet(rop.before)
    /\ "echo" \in SeqToSet(rop.before)
    /\ list_tools(tools) = SelectSeq(rop.before, LAMBDA n : n # "list_dir")
    /\ Len(tools) = Len(BuiltinNames)

----------------------------------------------------------------------------
\* a list of str
IsStrList(value) ==
    value.k = "list" /\ \A e \in Elements(value.elems) : e.k = "str"

\* the text of a file is a JSON object with the fields of the class, every
\* one of the type the class declares
WellFormed(class, text) ==
    /\ text.k = "dict"
    /\ "name" \in DictKeys(text.pairs)
    /\ DictKeys(text.pairs)
         \subseteq (IF class = "context" THEN ContextFields ELSE ModeFields)
    /\ \A key \in DictKeys(text.pairs) :
         LET value == DictGet(text.pairs, key)
         IN  CASE key \in {"name", "description"} -> value.k = "str"
               [] key \in {"settings", "memory_settings"} -> value.k = "dict"
               [] OTHER -> IsStrList(value)

\* the name given to load is the name of a built-in preset of the class
IsBuiltin(call) ==
    call.name \in (IF call.class = "context" THEN DOMAIN builtin_contexts
                   ELSE DOMAIN builtin_modes)

\* the name given to load is the path of an existing well-formed .json file
IsWellFormedFile(call) ==
    /\ call.suffix = ".json"
    /\ call.path.stat = "file"
    /\ WellFormed(call.class, call.path.text)

DocumentedDefault(class) ==
    IF class = "context" THEN builtin_contexts["default"]
    ELSE builtin_modes["interactive"]

(* C22: load of a name that is neither a built-in preset nor an existing    *)
(* well-formed .json file raises nothing and returns the documented default *)
(* (the "default" context, the "interactive" mode); a built-in name is      *)
(* resolved without touching any file.                                      *)
C22_LoadFallsBack ==
    loaded.state = "called"
        => /\ IsBuiltin(loaded)
                => /\ ~loaded.stat
                   /\ ~loaded.opened
                   /\ loaded.outcome.ok
           /\ ~IsBuiltin(loaded) /\ ~IsWellFormedFile(loaded)
                => loaded.outcome = Returned(DocumentedDefault(loaded.class))

----------------------------------------------------------------------------
(* C23: while a session serves, the handlers and the contract each is bound *)
(* to do not change, whatever is registered, registered again or            *)
(* unregistered in the registry and whatever the context and the modes are  *)
(* set to: a call is served iff its name has a handler, an entered call     *)
(* holds the tool its handler was bound to, and its executor gives what     *)
(* that tool gives for the call's arguments.                                *)
C23_HandlersFixedWhileServing ==
    [][phase = "serving"
         => /\ phase' = "serving"
            /\ handlers' = handlers
            /\ \A c \in CallIds :
                 /\ calls'[c].pc # "idle"
                      => (calls'[c].entered <=> calls'[c].name \in HandlerNames)
                 /\ calls'[c].entered
                      => calls'[c].tool = HandlerFor(calls'[c].name)
                 /\ calls'[c].pc \in {"finished", "done"} /\ calls'[c].entered
                      => calls'[c].outcome
                           = execute(HandlerFor(calls'[c].name), calls'[c].kwargs)]_vars

\* a call of echo in flight and a later one, both served by the tool bound at
\* registration, while the registry holds another contract under the name
\* and the context and the modes are not those of registration
C23_Witness ==
    /\ phase = "serving"
    /\ "echo" \in HandlerNames
    /\ HandlerFor("echo") = EchoTool
    /\ get_tool(tools, "echo") = EchoAgain
    /\ context = builtin_contexts["minimal"]
    /\ modes # <<>>
    /\ calls[1].name = "echo" /\ calls[1].ctx = 1 /\ calls[1].pc = "executing"
    /\ calls[2].name = "echo" /\ calls[2].ctx = 3 /\ calls[2].pc = "done"
    /\ calls[2].response.text = "hi"

----------------------------------------------------------------------------
(* C24: every invocation that reaches a handler gets a request context      *)
(* constructed for it, one no invocation before it had and none beside it   *)
(* has; a call keeps its context and its arguments until it is answered,    *)
(* whatever the other calls do, and its executor's outcome is that of its   *)
(* own tool on its own arguments.                                           *)
C24_OwnRequestContext ==
    [][\A c \in CallIds :
         /\ calls[c].pc = "idle" /\ calls'[c].entered
              => /\ calls'[c].ctx > nextCtx
                 /\ calls'[c].ctx = nextCtx'
                 /\ \A d \in CallIds : calls[d].ctx < calls'[c].ctx
         /\ calls[c].pc # "idle" /\ calls'[c].pc # "idle"
              => /\ calls'[c].ctx = calls[c].ctx
                 /\ calls'[c].kwargs = calls[c].kwargs
                 /\ calls'[c].tool = calls[c].tool
         /\ calls'[c].entered
              => /\ calls'[c].ctx \in 1..nextCtx'
                 /\ \A d \in CallIds \ {c} :
                      calls'[d].entered => calls'[d].ctx # calls'[c].ctx
         /\ calls'[c].entered /\ calls'[c].pc \in {"finished", "done"}
              => calls'[c].outcome = execute(calls'[c].tool, calls'[c].kwargs)]_vars

\* two calls of one tool in flight together, with different arguments, the
\* first in a slot that an answered call held before
C24_Witness ==
    /\ calls[1].name = "echo" /\ calls[1].pc = "executing" /\ calls[1].ctx = 3
    /\ calls[2].name = "echo" /\ calls[2].pc = "finished" /\ calls[2].ctx = 2
    /\ calls[1].kwargs # calls[2].kwargs
    /\ calls[2].outcome = Returned(StrV("Error: boom"))

----------------------------------------------------------------------------
RECURSIVE Overlay(_, _, _)
\* base.update(over), from the i-th pair of over on
Overlay(base, over, i) ==
    IF i > Len(over) THEN base
    ELSE Overlay(DictSet(base, over[i][1], over[i][2]), over, i + 1)

RECURSIVE MergedSettings(_, _, _)
\* the settings merged so far, overlaid by those of the modes from the i-th on
MergedSettings(merged, ms, i) ==
    IF i > Len(ms) THEN merged
    ELSE MergedSettings(Overlay(merged, ms[i].settings, 1), ms, i + 1)

(* C25: the settings a session works with are the context's settings        *)
(* overlaid by the settings of each active mode in activation order (the    *)
(* last mode defining a key wins, else the context's value), and the        *)
(* timeout the adapter runs a call with is the merged "timeout".            *)
C25_SettingsMerged ==
    phase # "new"
        => LET merged == MergedSettings(context.settings, modes, 1)
               held == apply_configuration(context, modes, ConfigSettings)
           IN  /\ DictKeys(held) = DictKeys(merged)
               /\ \A key \in DictKeys(merged) :
                    DictGet(held, key) = DictGet(merged, key)
               /\ "timeout" \in DictKeys(merged)
                    => WrapperTimeout = DictGet(merged, "timeout")

----------------------------------------------------------------------------
(* C26: a node whose type is a list gets multipleOf added only if the list  *)
(* contained "integer": a union with "number" and without "integer", such   *)
(* as ["number", "null"], comes out without multipleOf.                     *)
C26_MultipleOfOnlyForInteger ==
    \A pair \in SanitizedNodes :
        /\ JGet(pair[1], "type").k = "list"
        /\ "multipleOf" \notin DictKeys(pair[1].pairs)
        /\ pair[2].k = "dict"
        /\ "multipleOf" \in DictKeys(pair[2].pairs)
        => JStr("integer") \in Elements(JGet(pair[1], "type").elems)

(* C30: the enum of a node is returned with the same values unless every    *)
(* value is an integer: an enum of strings, of booleans, of mixed values or *)
(* an empty enum is not changed.                                            *)
C30_EnumKeptUnlessAllIntegers ==
    \A pair \in SanitizedNodes :
        /\ "enum" \in DictKeys(pair[1].pairs)
        /\ JGet(pair[1], "enum").k = "list"
        /\ \/ JGet(pair[1], "enum").elems = <<>>
           \/ \E e \in Elements(JGet(pair[1], "enum").elems) : e.k # "int"
        => /\ pair[2].k = "dict"
           /\ JGet(pair[2], "enum") = JGet(pair[1], "enum")

----------------------------------------------------------------------------
\* the exception is a SerenaException whose message names the tool and
\* carries the message of the exception the executor raised
WrappedFor(outcome, call) ==
    /\ outcome.exc = "SerenaException"
    /\ outcome.message = "Tool " \o call.name \o " failed: "
                            \o execute(call.tool, call.kwargs).message

(* C27: execute_tool raises SerenaException "Tool not found" for a name the *)
(* registry does not hold, and runs nothing; for a registered tool every    *)
(* failure of the executor reaches the caller as a SerenaException naming   *)
(* the tool, never as the exception the executor raised.                    *)
C27_FailuresWrapped ==
    xcall.state = "called"
        => /\ xcall.tool = None
                => xcall.outcome
                     = Raised("SerenaException", "Tool not found: " \o xcall.name)
           /\ xcall.tool # None
                => /\ ~xcall.outcome.ok => WrappedFor(xcall.outcome, xcall)
                   /\ xcall.awaited # NotCalled /\ ~xcall.awaited.ok
                        => WrappedFor(xcall.awaited, xcall)

----------------------------------------------------------------------------
(* C28: constructing a SerenaAgent completes for every list of modes and    *)
(* every list of explicitly configured tool names, registered or not, and   *)
(* leaves in the agent's registry exactly the built-in tools, in their      *)
(* order and with their contracts.                                          *)
C28_ConstructionKeepsRegistry ==
    phase # "new"
        => /\ phase = "agent"
           /\ tools = ToolRegistry
           /\ list_tools(tools) = [i \in 1..Len(builtin_tools) |-> builtin_tools[i][1]]

\* an agent built with a mode whose tools nobody registered and with two
\* configured names, the first not registered
C28_Witness ==
    /\ phase = "agent"
    /\ Len(ctools) = 2
    /\ ctools[1] = "nothing"
    /\ ctools[2] = "find_symbol"
    /\ Len(modes) = 2
    /\ modes[1].name = "interactive"
    /\ get_tool(tools, "nothing") = None
    /\ get_tool(tools, "ask_user") = None

----------------------------------------------------------------------------
\* the names the tool declares
DeclaredNames == {vtool.parameters[i].name : i \in 1..Len(vtool.parameters)}

\* the arguments of the call that are under declared names
DeclaredKwargs ==
    [n \in DOMAIN vkwargs \cap DeclaredNames |-> vkwargs[n]]

(* C29: the mapping validate_parameters returns has keys among the declared *)
(* parameter names only; arguments under other names are dropped and never  *)
(* make validation fail: the call returns or raises what it returns or      *)
(* raises without them.                                                     *)
C29_UndeclaredDropped ==
    vresult # NotCalled
        => LET alone == validate_parameters(vtool, DeclaredKwargs)
           IN  /\ vresult.state = "returned"
                    => DictKeys(vresult.validated) \subseteq DeclaredNames
               /\ vresult = IF alone.ok
                            THEN [state |-> "returned",
                                  validated |-> alone.validated]
                            ELSE [state |-> "raised", exc |-> alone.exc,
                                  message |-> alone.message]

====
